---------------------------- MODULE Spec2Model ----------------------------
(***************************************************************************)
(* A model of the runtime core of the "Sea of Ducks" engine:               *)
(*   - Engine._loop, the frame-capped scheduler        (engine/Core.js)    *)
(*   - EntityManager, pools / caps / deferred removal  (EntityManager.js)  *)
(*   - SpatialGrid, the uniform bucket index           (SpatialGrid.js)    *)
(*   - the system pipeline registered by main.js                           *)
(*                                                                         *)
(* The specifications share the variables:                                 *)
(*   SpecEngine    the scheduler alone, driven by start/stop/frame         *)
(*                 callbacks at arbitrary (monotone) callback times;       *)
(*   SpecRegistry  the EntityManager API driven by arbitrary call          *)
(*                 sequences (add, queueRemove, flushRemovals);            *)
(*   SpecRegistryMoves  the same with position changes and updateGrid;     *)
(*   Spec          the wired game: the pipeline of main.js, one action per *)
(*                 system, with spawner calls between the ticks;           *)
(*   SpecGrowth    the wired game with a larger budget of entity objects.  *)
(***************************************************************************)
EXTENDS Integers, Sequences, FiniteSets, TLC

(***************************************************************************)
(* Bounds of the model                                                     *)
(***************************************************************************)
\* time resolution: model time units per target frame interval
UnitsPerFrame == 4
\* wall-clock horizon, in target frame intervals
MaxFrames == 8
\* how many of the most recent executed ticks the tick history keeps
MaxHist == 3
\* how many animation-frame requests a run may issue
MaxRaf == 6
\* how many entity objects a run may construct
MaxEnt == 3
\* how many entity objects a run of SpecGrowth may construct
MaxGrowthEnt == 4
\* the population cap (MAX_COUNT) given to every species descriptor of the model
MaxCount == 2
\* how many systems a run may register with the engine
MaxSystems == 3
\* how many on() calls a run of the bus may make
MaxOn == 3
\* how many add calls a run of SpecAdd may make
MaxAddEnt == 2
\* how many entries the grid model's cells may hold in total
MaxEntries == 2

(***************************************************************************)
(* Program constants                                                       *)
(***************************************************************************)
\* CONFIG.UPDATE_FPS
TargetFPS == 60
\* the number of systems main.js registers with engine.addSystem
NumSystems == 11
\* CONFIG.SPATIAL_GRID_SIZE
SPATIAL_GRID_SIZE == 150

Min(a, b) == IF a <= b THEN a ELSE b
Max(a, b) == IF a >= b THEN a ELSE b

(***************************************************************************)
(* Time.  The code measures callback times in (fractional) milliseconds    *)
(* and dt in seconds.  The model measures both in one integer unit chosen  *)
(* so that targetFrameMs = 1000 / targetFPS is UnitsPerFrame units; one    *)
(* second is then TargetFPS * UnitsPerFrame units and the 0.1 s clamp is a *)
(* tenth of that.  Floating-point rounding is not modelled.                *)
(***************************************************************************)
UnitsPerSecond == TargetFPS * UnitsPerFrame
targetFrameMs  == UnitsPerSecond \div TargetFPS
MaxTime        == MaxFrames * UnitsPerFrame

VARIABLES
    \* ---- Engine (engine/Core.js) ----
    isRunning,      \* Engine.isRunning
    lastTime,       \* Engine._lastTime
    rafId,          \* Engine._rafId: 0 = null, otherwise a request id
    rafPending,     \* the animation-frame requests the browser still holds
    nextRaf,        \* the next request id requestAnimationFrame hands out
    now,            \* wall clock
    \* ---- observations of the last frame callback ----
    cbTime,         \* currentTime the callback received
    prevLast,       \* _lastTime when the callback was entered
    ran,            \* TRUE iff the callback executed the systems
    dt,             \* dt passed to the systems by the last executed tick
    sysCalls,       \* number of system.update calls the callback made
    tickLog,        \* callback times of the most recent executed ticks
    \* ---- EntityManager (engine/EntityManager.js) ----
    pools,          \* the twelve entity pools: pool key -> array of entities
    grids,          \* this.grids: grid key -> (cell key -> array of entities)
    removeQueue,    \* this._removeQueue
    \* ---- entity objects ----
    ent,            \* the fields of every constructed entity object
    nextEnt,        \* the next entity object to be constructed
    \* ---- observations ----
    destroyed,      \* entity -> number of destroy() calls it received
    removedEmits,   \* entity -> number of ENTITY_REMOVED notifications for it
    spawnedEmits,   \* entity -> number of ENTITY_SPAWNED notifications for it
    dupReq,         \* a queueRemove since the last flush named a queued entity
    lastFlush,      \* what the most recent flushRemovals call was given
    \* ---- World (game/Entities/Fish.js) ----
    isPaused,       \* world.isPaused
    \* ---- Engine.systems and what a frame callback did with them ----
    systems,        \* Engine.systems: the registered systems, in order
    callLog,        \* the update calls of the last frame callback: <<[idx, dt]>>
    escaped,        \* an exception left the last frame callback
    everEscaped,    \* an exception left some frame callback
    \* ---- EventBus (engine/EventBus.js) ----
    subs,           \* EventBus._map: topic -> array of handlers
    handlerLog,     \* the handler calls of the last emit (or frame callback)
    handles,        \* the unsubscribe functions on() has returned: <<[event, cb]>>
    \* ---- a SpatialGrid on its own (engine/SpatialGrid.js) ----
    sg,             \* SpatialGrid.grid: cell key -> array of objects
    objPos,         \* the position (x, y) of every object
    lastQuery,      \* the last getNearby / findNearest call and its result
    \* ---- observations of single calls ----
    lastAdd,        \* the last add(entity, poolKey, useGrid) call and its outcome
    \* ---- entity ids (EntityManager ID counters, game/Spawners.js) ----
    ids,            \* the registry's id counters: counter name -> next id
    entId,          \* entity.id of every constructed entity; 0 = not modelled
    seagrassTimers, \* the pending addSeagrass timers of addIsland
    \* ---- timers set for an entity (Bird.js, Mammal.js, Spawners.js Egg) ----
    timers,         \* the pending callbacks: [fn, e = the entity, i]
    onIsland,       \* the birds whose onIsland flag is set
    hatching,       \* the eggs whose _hatching flag is set
    \* ---- the natural algae spawner (main.js, system 7) ----
    algaeTimer,     \* let algaeTimer
    simTime,        \* the sum of the dt of the unpaused ticks so far
    algaeFired,     \* the number of times the spawner called addAlgae
    \* ---- AI decisions (AISystem.js, Bird.js, Mammal.js) ----
    isMobile,       \* isMobile of engine/Core.js
    clock,          \* Date.now(), in units of 1000 ms
    lastThink,      \* lastDecisionTime of a bird, lastThinkTime of a mammal
    decisions,      \* the times of the last two runs of an entity's decision logic
    \* ---- reproduction (ReproductionSystem.js, Fish.js, Mammal.js) ----
    hunger,         \* entity.hunger
    reproCooldown,  \* entity.reproductionCooldown, in seconds
    lucky,          \* the entities whose Math.random() draw of the last
                    \* reproduction step was at most 0.01
    sinceBred,      \* unpaused simulated seconds since the entity last had
                    \* offspring; -1 = it never had
    lastGap,        \* sinceBred of the entity when it last paired; -1 = none
    \* ---- predators hunting (Mammal.js) ----
    huntTarget,     \* target of a predator in state 'hunting', target.obj of
                    \* a bird; 0 = null
    ducksEaten,     \* predator.ducksEaten
    eatenEmits,     \* duck -> number of DUCK_EATEN events emitted for it
    staleCatch,     \* some _catchDuck got a duck that was in the removal
                    \* queue already or not in the ducks pool
    \* ---- birds laying eggs (Bird.js) ----
    birdState,      \* bird.state
    layCount,       \* the _layEggsOnIsland calls of a bird since its state
                    \* was last assigned
    \* ---- eggs hatching (Spawners.js Egg) ----
    ducksFrom,      \* egg -> number of ducks its hatch callbacks constructed
    \* ---- the rest of a tick (BaseEntity.js, World, RenderSystem, main.js) ----
    age,            \* entity.age, in seconds
    dayNightCycle,  \* world.dayNightCycle, in seconds
    isNight,        \* world.isNight
    domMap,         \* the entities RenderSystem.domMap holds an element for
    ufoCheckCooldown, \* let ufoCheckCooldown of the UFO system, in seconds
    \* ---- a call of genomix.mutate (genomix/genomixLib.sol) ----
    mutArgs,        \* [parentGenome, mutationIntensity, randomSeed]
    mutResult,      \* what the call did: returned a genome, or reverted
    canBreed,       \* the predators whose canBreed flag is set
    foreignWrites,  \* the entities a field of which another entity's _think
                    \* assigned in the last AISystem.update
    \* ---- environment (EntityManager, PollutionSystem, GameUI) ----
    waterPollution, \* entities.waterPollution, in units of 1 / PollutionScale
    biodiversity,   \* entities.biodiversity, in units of 1 / BioScale
    lifetime,       \* the lifetime field of the algae entities, in seconds
    \* ---- control ----
    entLimit,       \* how many entity objects this run may construct (set by Init)
    pc              \* "api" under SpecRegistry; the pipeline position under Spec

engVars == <<isRunning, lastTime, rafId, rafPending, nextRaf, now,
             cbTime, prevLast, ran, dt, sysCalls, tickLog>>

regVars == <<pools, grids, removeQueue, ent, nextEnt,
             destroyed, removedEmits, spawnedEmits>>

obsVars == <<dupReq, lastFlush>>

worldVars == <<isPaused>>

loopVars == <<systems, callLog, escaped, everEscaped>>

busVars == <<subs, handlerLog, handles>>

gridVars == <<sg, objPos, lastQuery>>

algaeVars == <<algaeTimer, simTime, algaeFired>>

thinkVars == <<isMobile, clock, lastThink, decisions>>

reproVars == <<hunger, reproCooldown, lucky, sinceBred, lastGap>>

huntVars == <<huntTarget, ducksEaten, eatenEmits, staleCatch>>

layVars == <<birdState, layCount>>

tickVars == <<age, dayNightCycle, isNight, domMap, ufoCheckCooldown>>

genomeVars == <<mutArgs, mutResult>>

lateVars == <<algaeVars, thinkVars, reproVars, huntVars, layVars, ducksFrom,
              tickVars, genomeVars>>

callVars == <<lastAdd, ids, entId, seagrassTimers, timers, onIsland, hatching,
              canBreed, foreignWrites, waterPollution, biodiversity, lifetime,
              lateVars>>

auxVars == <<loopVars, busVars, gridVars, callVars>>

vars == <<engVars, regVars, obsVars, worldVars, auxVars, entLimit, pc>>

(***************************************************************************)
(* Engine                                                                  *)
(***************************************************************************)
\* mutant: the clamp is dropped
ClampDt_NoClamp(elapsed) == elapsed

\* const dt = Math.min(elapsed / 1000, 0.1)
ClampDt(elapsed) == Min(elapsed, UnitsPerSecond \div 10)

\* mutant: the timestamp is set to the raw callback time
NewLastTime_Raw(currentTime, elapsed) == currentTime

\* this._lastTime = currentTime - (elapsed % this.targetFrameMs)
NewLastTime(currentTime, elapsed) == currentTime - (elapsed % targetFrameMs)

\* mutant: the FPS cap lets every callback through
TooEarly_Never(elapsed) == FALSE

\* if (elapsed < this.targetFrameMs) return
TooEarly(elapsed) == elapsed < targetFrameMs

\* keep the last MaxHist entries of the tick history
Remember(log, t) ==
    LET l == Append(log, t)
    IN  IF Len(l) > MaxHist THEN Tail(l) ELSE l

(***************************************************************************)
(* Entities, species descriptors and positions                             *)
(***************************************************************************)
Ents == 1..Max(MaxEnt, MaxGrowthEnt)

\* the species descriptors (SPECIES table) the model uses, by their id
SpeciesIds == {"duck_mallard", "shrimp", "shrimp_baby", "algae_healthy"}

\* the species whose pairs have offspring under SpecRepro
BreedingSpecies == {"fish_tropical", "fish_squid"}

\* speciesDef.MAX_COUNT.  The table's caps are 5..40; canSpawn only compares
\* the count against the cap, so the model gives every descriptor the small
\* cap MaxCount, and one more where a pair needs room for its offspring.
MAX_COUNT(sp) == IF sp \in BreedingSpecies THEN MaxCount + 1 ELSE MaxCount

\* the coordinates entities take in the model: two buckets of the grid
Positions == {<<10, 10>>, <<160, 10>>}

\* an entity object; sp = "none" is an object without speciesDef
\* (Island, Egg, Elixir) or one that is not constructed yet.
\*   sp      speciesDef.id
\*   x, y    position
\*   dead    the dead flag
\*   falling PreyEntity.isFalling (and not yet hasEnteredWater)
\*   fed     PreyEntity.hunger >= 60, the threshold of shrimp reproduction
NoEntity == [sp |-> "none", x |-> 0, y |-> 0, dead |-> FALSE,
             falling |-> FALSE, fed |-> FALSE]

NewEntity(sp, pos) == [sp |-> sp, x |-> pos[1], y |-> pos[2], dead |-> FALSE,
                       falling |-> FALSE, fed |-> FALSE]

(***************************************************************************)
(* JavaScript array helpers                                                *)
(***************************************************************************)
\* arr.indexOf(e), 1-based; 0 when absent (JavaScript's -1)
IndexOf(arr, e) ==
    IF \E i \in 1..Len(arr) : arr[i] = e
      THEN CHOOSE i \in 1..Len(arr) :
              arr[i] = e /\ \A j \in 1..(i - 1) : arr[j] # e
      ELSE 0

\* arr.splice(i, 1)
Splice(arr, i) == SubSeq(arr, 1, i - 1) \o SubSeq(arr, i + 1, Len(arr))

\* arr.includes(e)
Includes(arr, e) == \E i \in 1..Len(arr) : arr[i] = e

(***************************************************************************)
(* SpatialGrid (engine/SpatialGrid.js)                                     *)
(***************************************************************************)
\* _key(x, y): the pair of floor-divided coordinates (the code joins the two
\* numbers with a comma; the pair is that string, unformatted)
Key(x, y) == <<x \div SPATIAL_GRID_SIZE, y \div SPATIAL_GRID_SIZE>>

\* the keys the model's positions fall in; a Map entry that is absent and one
\* that holds the empty array are both the empty sequence
Cells == {Key(p[1], p[2]) : p \in Positions}

EmptyGrid == [c \in Cells |-> <<>>]

\* SpatialGrid.add(obj)
GridAdd(g, e, x, y) == [g EXCEPT ![Key(x, y)] = Append(@, e)]

\* SpatialGrid.remove(obj): looks only in the cell of obj's current position
GridRemove(g, e, x, y) ==
    LET cell == g[Key(x, y)]
        i    == IndexOf(cell, e)
    IN  IF i > 0 THEN [g EXCEPT ![Key(x, y)] = Splice(cell, i)] ELSE g

\* mutant: update leaves the entry of the old cell in place
GridUpdate_KeepsOld(g, e, oldX, oldY, x, y) ==
    IF Key(oldX, oldY) = Key(x, y) THEN g
    ELSE [g EXCEPT ![Key(x, y)] = Append(@, e)]

\* mutant: update takes the object out of its old cell and stores it nowhere
GridUpdate_NoPush(g, e, oldX, oldY, x, y) ==
    LET i == IndexOf(g[Key(oldX, oldY)], e)
    IN  IF Key(oldX, oldY) = Key(x, y) \/ i = 0 THEN g
        ELSE [g EXCEPT ![Key(oldX, oldY)] = Splice(@, i)]

\* SpatialGrid.update(obj, oldX, oldY), obj now at (x, y)
GridUpdate(g, e, oldX, oldY, x, y) ==
    LET oldKey == Key(oldX, oldY)
        newKey == Key(x, y)
        i      == IndexOf(g[oldKey], e)
        g1     == IF i > 0 THEN [g EXCEPT ![oldKey] = Splice(@, i)] ELSE g
    IN  IF oldKey = newKey THEN g
        ELSE [g1 EXCEPT ![newKey] = Append(@, e)]

(***************************************************************************)
(* EntityManager (engine/EntityManager.js)                                 *)
(***************************************************************************)
\* the pools, in the order remove() searches them
PoolKeys == << "ducks", "fish", "food", "eggs", "algae", "seagrass", "kelp",
               "octopi", "elixirs", "islands", "seaCreatures", "predators" >>

PoolSet == {PoolKeys[i] : i \in 1..Len(PoolKeys)}

\* get allArrays(): every pool but islands
AllArrays == << "ducks", "fish", "food", "eggs", "algae", "seagrass", "kelp",
                "octopi", "elixirs", "seaCreatures", "predators" >>

\* GRID_MAP: which pool feeds which grid
GridPools == {"ducks", "fish", "food", "seaCreatures"}
GRID_MAP(poolKey) ==
    CASE poolKey = "ducks"        -> "ducks"
      [] poolKey = "fish"         -> "fish"
      [] poolKey = "food"         -> "food"
      [] poolKey = "seaCreatures" -> "creatures"
GridKeys == {"ducks", "fish", "food", "creatures"}

\* the registry as one value, so that its methods are operators on it
Registry == [pools |-> pools, grids |-> grids, queue |-> removeQueue,
             destroyed |-> destroyed, removedEmits |-> removedEmits,
             spawnedEmits |-> spawnedEmits]

\* number of entries of arr whose speciesDef.id is sp
RECURSIVE CountIn(_, _, _)
CountIn(E, arr, sp) ==
    IF arr = <<>> THEN 0
    ELSE (IF E[Head(arr)].sp = sp THEN 1 ELSE 0) + CountIn(E, Tail(arr), sp)

\* countSpecies(speciesDef): the scan over allArrays
RECURSIVE CountFrom(_, _, _, _)
CountFrom(P, E, sp, k) ==
    IF k > Len(AllArrays) THEN 0
    ELSE CountIn(E, P[AllArrays[k]], sp) + CountFrom(P, E, sp, k + 1)

countSpecies(P, E, sp) == CountFrom(P, E, sp, 1)

\* mutant: the comparison admits one entity more
canSpawn_OffByOne(P, E, sp) == countSpecies(P, E, sp) <= MAX_COUNT(sp)

\* canSpawn(speciesDef)
canSpawn(P, E, sp) == countSpecies(P, E, sp) < MAX_COUNT(sp)

\* mutant: add inserts into the mapped grid whatever useGrid says
Add_AlwaysGrid(R, E, e, poolKey, useGrid) ==
    LET R1 == [R EXCEPT !.pools[poolKey] = Append(@, e)]
        R2 == IF poolKey \in GridPools
                THEN [R1 EXCEPT !.grids[GRID_MAP(poolKey)] =
                                    GridAdd(@, e, E[e].x, E[e].y)]
                ELSE R1
    IN  [R2 EXCEPT !.spawnedEmits[e] = @ + 1]

\* add(entity, poolKey, useGrid); E holds the entity's fields
Add(R, E, e, poolKey, useGrid) ==
    LET R1 == [R EXCEPT !.pools[poolKey] = Append(@, e)]
        R2 == IF useGrid /\ poolKey \in GridPools
                THEN [R1 EXCEPT !.grids[GRID_MAP(poolKey)] =
                                    GridAdd(@, e, E[e].x, E[e].y)]
                ELSE R1
    IN  [R2 EXCEPT !.spawnedEmits[e] = @ + 1]

\* mutant: the entity is removed from its pool at once
QueueRemove_Immediate(R, e) ==
    [R EXCEPT !.pools = [k \in DOMAIN R.pools |->
                            SelectSeq(R.pools[k], LAMBDA o : o # e)]]

\* queueRemove(entity)
QueueRemove(R, e) ==
    IF Includes(R.queue, e) THEN R ELSE [R EXCEPT !.queue = Append(@, e)]

\* the body of remove()'s loop for the pool key, which holds the entity at idx
RemoveAt(R, E, e, key, idx) ==
    LET R1 == [R EXCEPT !.pools[key] = Splice(@, idx)]
        R2 == IF key \in GridPools
                THEN [R1 EXCEPT !.grids[GRID_MAP(key)] =
                                    GridRemove(@, e, E[e].x, E[e].y)]
                ELSE R1
    IN  [R2 EXCEPT !.destroyed[e] = @ + 1, !.removedEmits[e] = @ + 1]

\* mutant: remove() notifies also when the entity is in no pool
Remove_AlwaysEmits(R, E, e) ==
    LET found == {k \in 1..Len(PoolKeys) : IndexOf(R.pools[PoolKeys[k]], e) > 0}
    IN  IF found = {} THEN [R EXCEPT !.removedEmits[e] = @ + 1]
        ELSE LET k == CHOOSE m \in found : \A n \in found : m <= n
             IN  RemoveAt(R, E, e, PoolKeys[k], IndexOf(R.pools[PoolKeys[k]], e))

\* mutant: remove() skips the pools that feed a grid
Remove_SkipsGridPools(R, E, e) ==
    LET found == {k \in 1..Len(PoolKeys) :
                     /\ PoolKeys[k] \notin GridPools
                     /\ IndexOf(R.pools[PoolKeys[k]], e) > 0}
    IN  IF found = {} THEN R
        ELSE LET k == CHOOSE m \in found : \A n \in found : m <= n
             IN  RemoveAt(R, E, e, PoolKeys[k], IndexOf(R.pools[PoolKeys[k]], e))

\* remove(entity): the first pool, in search order, that holds the entity
Remove(R, E, e) ==
    LET found == {k \in 1..Len(PoolKeys) : IndexOf(R.pools[PoolKeys[k]], e) > 0}
    IN  IF found = {} THEN R
        ELSE LET k == CHOOSE m \in found : \A n \in found : m <= n
             IN  RemoveAt(R, E, e, PoolKeys[k], IndexOf(R.pools[PoolKeys[k]], e))

\* for (const e of this._removeQueue) this.remove(e)
RECURSIVE FlushFrom(_, _, _)
FlushFrom(R, E, i) ==
    IF i > Len(R.queue) THEN R
    ELSE FlushFrom(Remove(R, E, R.queue[i]), E, i + 1)

\* flushRemovals()
FlushRemovals(R, E) == [FlushFrom(R, E, 1) EXCEPT !.queue = <<>>]

\* updateGrid(entity, oldX, oldY, gridKey)
UpdateGrid(R, E, e, oldX, oldY, gridKey) ==
    IF gridKey \in GridKeys
      THEN [R EXCEPT !.grids[gridKey] = GridUpdate(@, e, oldX, oldY, E[e].x, E[e].y)]
      ELSE R

\* the registry value R written back to the variables
SetRegistry(R) ==
    /\ pools' = R.pools
    /\ grids' = R.grids
    /\ removeQueue' = R.queue
    /\ destroyed' = R.destroyed
    /\ removedEmits' = R.removedEmits
    /\ spawnedEmits' = R.spawnedEmits

\* no flushRemovals call observed
NoFlush == [dup |-> FALSE, stale |-> FALSE, dead |-> FALSE, removed |-> 0]

\* new EntityManager(bus, config), and no entity object constructed yet
RegInit ==
    /\ pools = [k \in PoolSet |-> <<>>]
    /\ grids = [g \in GridKeys |-> EmptyGrid]
    /\ removeQueue = <<>>
    /\ ent = [e \in Ents |-> NoEntity]
    /\ nextEnt = 1
    /\ destroyed = [e \in Ents |-> 0]
    /\ removedEmits = [e \in Ents |-> 0]
    /\ spawnedEmits = [e \in Ents |-> 0]
    /\ dupReq = FALSE
    /\ lastFlush = NoFlush

\* the entity objects constructed so far
Created == 1..(nextEnt - 1)

\* the entities that are in some pool
InPools == {e \in Ents : \E k \in PoolSet : Includes(pools[k], e)}

\* the entities some cell of some grid refers to
InGrids == {e \in Ents : \E g \in GridKeys : \E c \in Cells : Includes(grids[g][c], e)}

(***************************************************************************)
(* EventBus (engine/EventBus.js)                                           *)
(***************************************************************************)
\* the topics of the model
Topics == {"A", "B"}

\* The handler functions of the model.  A handler is an input of the bus:
\* h1 and h2 just return, bad throws, once unsubscribes itself from the topic
\* it was called for (with the function on() returned to it), sub subscribes
\* h2 to the topic it was called for.
Handlers == {"h1", "h2", "once", "sub", "bad"}

HandlerKind(h) ==
    CASE h = "bad"  -> "throws"
      [] h = "once" -> "once"
      [] h = "sub"  -> "subscribes"
      [] OTHER      -> "inert"

\* bound on the length of a topic's subscriber array
MaxSubs == 4

\* new EventBus(); a topic without Map entry and one with an empty array
\* are both the empty sequence
EmptyBus == [t \in Topics |-> <<>>]

\* on(event, cb): this._map.get(event).push(cb)
On(m, event, cb) == [m EXCEPT ![event] = Append(@, cb)]

\* off(event, cb): splices the first occurrence of cb out of the topic's array
Off(m, event, cb) ==
    LET i == IndexOf(m[event], cb)
    IN  IF i > 0 THEN [m EXCEPT ![event] = Splice(@, i)] ELSE m

\* mutant: a throwing handler's exception is swallowed
Raise_Swallowed(B) == B

\* a throw statement in a handler: nothing between the handler and the
\* browser catches it
Raise(B) == [B EXCEPT !.thrown = TRUE]

\* the entry the array iterator of emit's for...of yields at its i-th step
EmitOrder(list, i) == list[i]

\* emit(event, payload): for (const cb of list) cb(payload).  The iterator
\* walks the live array by index, so what a handler does to the array during
\* the walk is seen by the rest of the walk; an exception ends it.
\* B = [subs, calls, thrown]
RECURSIVE EmitFrom(_, _, _)
EmitFrom(B, event, i) ==
    IF B.thrown \/ i > Len(B.subs[event]) THEN B
    ELSE LET h  == EmitOrder(B.subs[event], i)
             B1 == [B EXCEPT !.calls = Append(@, h)]
         IN  CASE HandlerKind(h) = "throws" -> EmitFrom(Raise(B1), event, i + 1)
               [] HandlerKind(h) = "once"   ->
                     EmitFrom([B1 EXCEPT !.subs = Off(@, event, h)], event, i + 1)
               [] HandlerKind(h) = "subscribes" ->
                     EmitFrom([B1 EXCEPT !.subs = On(@, event, "h2")], event, i + 1)
               [] OTHER                     -> EmitFrom(B1, event, i + 1)

Emit(m, event) == EmitFrom([subs |-> m, calls |-> <<>>, thrown |-> FALSE], event, 1)

\* no emit observed
NoEmit == [event |-> "none", calls |-> <<>>, thrown |-> FALSE]

BusInit0 ==
    /\ subs = EmptyBus
    /\ handlerLog = NoEmit
    /\ handles = <<>>

(***************************************************************************)
(* Engine.systems and the systems loop of Engine._loop                     *)
(***************************************************************************)
\* What a system's update does.  A system is an input of the engine: one
\* that just returns, one that emits on the bus (topic "A"), one that calls
\* engine.stop(), one that calls engine.start().
SystemKinds == {"plain", "emit", "stop", "start"}

\* mutant: start() without the isRunning guard
EngStart_NoGuard(L) ==
    [L EXCEPT !.isRunning = TRUE, !.rafId = L.nextRaf,
              !.rafPending = @ \cup {L.nextRaf}, !.nextRaf = @ + 1]

\* Engine.start(), on the engine fields of L
EngStart(L) ==
    IF L.isRunning THEN L
    ELSE [L EXCEPT !.isRunning = TRUE, !.rafId = L.nextRaf,
                   !.rafPending = @ \cup {L.nextRaf}, !.nextRaf = @ + 1]

\* Engine.stop(), on the engine fields of L
EngStop(L) ==
    [L EXCEPT !.isRunning = FALSE,
              !.rafPending = IF L.rafId # 0 THEN @ \ {L.rafId} ELSE @]

\* mutant: the systems are walked from the end of the array
SystemIndex_Reversed(n, i) == n + 1 - i

\* the array index the i-th step of for (const system of this.systems) visits
SystemIndex(n, i) == i

\* for (const system of this.systems) system.update(dt, currentTime), from
\* the i-th step on; d is the dt of the tick.
\* L = [isRunning, rafId, rafPending, nextRaf, callLog, subs, calls, thrown]
RECURSIVE RunSystems(_, _, _, _)
RunSystems(L, S, i, d) ==
    IF L.thrown \/ i > Len(S) THEN L
    ELSE LET idx == SystemIndex(Len(S), i)
             L1  == [L EXCEPT !.callLog = Append(@, [idx |-> idx, dt |-> d])]
             L2  == CASE S[idx] = "stop"  -> EngStop(L1)
                      [] S[idx] = "start" -> EngStart(L1)
                      [] S[idx] = "emit"  ->
                            LET B == EmitFrom([subs |-> L1.subs, calls |-> L1.calls,
                                               thrown |-> FALSE], "A", 1)
                            IN  [L1 EXCEPT !.subs = B.subs, !.calls = B.calls,
                                           !.thrown = B.thrown]
                      [] OTHER            -> L1
         IN  RunSystems(L2, S, i + 1, d)

LoopInit0 ==
    /\ systems = <<>>
    /\ callLog = <<>>
    /\ escaped = FALSE
    /\ everEscaped = FALSE

(***************************************************************************)
(* A SpatialGrid on its own: getNearby, and EntityManager.findNearest      *)
(***************************************************************************)
\* the objects of the grid model
Objs == {"o1", "o2"}

\* the positions objects and query centres take: four cells, negative
\* coordinates in both axes, two positions in one cell, two positions 10 apart
\* on both sides of a cell border, two positions 150 apart
GridPositions ==
    {<<-5, -5>>, <<5, -5>>, <<10, 10>>, <<40, 10>>, <<160, 10>>}

\* the radii of getNearby queries
Radii == {0, 10, 150}

\* maxDist = Infinity
Infinity == -1

\* the maxDist arguments of findNearest
MaxDists == {0, 10, 150, 300, Infinity}

SgCells == {Key(p[1], p[2]) : p \in GridPositions}

\* this.grid.get(key): an absent entry yields no objects
CellAt(g, c) == IF c \in DOMAIN g THEN g[c] ELSE <<>>

\* mutant: the ring is floor(radius / cellSize) cells wide
CellRadius_Floor(r) == r \div SPATIAL_GRID_SIZE

\* Math.ceil(radius / this.cellSize), for an integer radius >= 0
CellRadius(r) == (r + SPATIAL_GRID_SIZE - 1) \div SPATIAL_GRID_SIZE

\* the (dx, dy) pairs in the order the two nested loops visit them
Offsets(cr) ==
    [k \in 1..((2 * cr + 1) * (2 * cr + 1)) |->
        <<((k - 1) \div (2 * cr + 1)) - cr, ((k - 1) % (2 * cr + 1)) - cr>>]

\* results.push(...cell) for the offsets from the k-th on
RECURSIVE Collect(_, _, _, _, _)
Collect(g, cx, cy, offs, k) ==
    IF k > Len(offs) THEN <<>>
    ELSE CellAt(g, <<cx + offs[k][1], cy + offs[k][2]>>)
            \o Collect(g, cx, cy, offs, k + 1)

\* SpatialGrid.getNearby(x, y, radius)
getNearby(g, x, y, r) ==
    Collect(g, x \div SPATIAL_GRID_SIZE, y \div SPATIAL_GRID_SIZE,
            Offsets(CellRadius(r)), 1)

\* dx * dx + dy * dy for object o at P[o]; the code compares the square roots,
\* the model the squares (rounding of Math.sqrt is not modelled)
Dist2(P, o, x, y) ==
    (P[o][1] - x) * (P[o][1] - x) + (P[o][2] - y) * (P[o][2] - y)

\* maxDist as a squared bound
Bound2(maxDist) == IF maxDist = Infinity THEN Infinity ELSE maxDist * maxDist

\* mutant: a candidate at the same distance replaces the one found first
Closer_OrEqual(d2, best2) == best2 = Infinity \/ d2 <= best2

\* if (d < best)
Closer(d2, best2) == best2 = Infinity \/ d2 < best2

\* the loop of findNearest from the i-th candidate on
RECURSIVE FindFrom(_, _, _, _, _, _, _)
FindFrom(P, x, y, arr, i, nearest, best2) ==
    IF i > Len(arr) THEN nearest
    ELSE LET d2 == Dist2(P, arr[i], x, y)
         IN  IF Closer(d2, best2)
               THEN FindFrom(P, x, y, arr, i + 1, arr[i], d2)
               ELSE FindFrom(P, x, y, arr, i + 1, nearest, best2)

\* EntityManager.findNearest(x, y, array, maxDist); "null" is null
findNearest(P, x, y, arr, maxDist) ==
    FindFrom(P, x, y, arr, 1, "null", Bound2(maxDist))

\* no query observed; moved is <<o, oldX, oldY>> when the last change of the
\* grid was update(o, oldX, oldY)
NoQuery == [kind |-> "none", x |-> 0, y |-> 0, r |-> 0, arr |-> <<>>,
            nearby |-> <<>>, nearest |-> "null", moved |-> <<>>]

GridInit0 ==
    /\ sg = [c \in SgCells |-> <<>>]
    /\ objPos = [o \in Objs |-> <<10, 10>>]
    /\ lastQuery = NoQuery

\* no add call observed
NoAdd == [e |-> 0, key |-> "none", useGrid |-> FALSE, threw |-> FALSE,
          seen |-> FALSE]

\* the id counters of the registry that the modelled spawners use; the
\* constructor sets each to 1
Counters == {"nextAlgaeId", "nextKelpId", "nextSeagrassId", "nextFishId",
             "nextCreatureId", "nextIslandId", "nextDuckId", "nextEggId",
             "nextPredatorId"}

\* units of waterPollution per point: the pollution rates of the SPECIES
\* table are multiples of 0.05
PollutionScale == 20

\* the species of the SPECIES table: 4 algae, 6 birds, 6 mammals, 9 fish, 2 prey
SpeciesCount == 27

\* units of biodiversity per point
BioScale == 2 * PollutionScale * SpeciesCount

\* CONFIG.THINK_COOLDOWN on a desktop and on a mobile browser, in units of
\* 1000 ms
THINK_COOLDOWN == 3
THINK_COOLDOWN_MOBILE == 5

\* Date.now() when the page starts: further from 0 than any cooldown
ClockStart == 2 * THINK_COOLDOWN_MOBILE

CallInit0 ==
    /\ lastAdd = NoAdd
    /\ ids = [c \in Counters |-> 1]
    /\ entId = [e \in Ents |-> 0]
    /\ seagrassTimers = 0
    /\ timers = {} /\ onIsland = {} /\ hatching = {}
    /\ canBreed = {} /\ foreignWrites = {}
    /\ waterPollution = 0 /\ biodiversity = 100 * BioScale /\ lifetime = [e \in Ents |-> 0]
    /\ algaeTimer = 0 /\ simTime = 0 /\ algaeFired = 0
    /\ clock = ClockStart
    /\ lastThink = [e \in Ents |-> 0] /\ decisions = [e \in Ents |-> <<>>]
    /\ hunger = [e \in Ents |-> 0] /\ reproCooldown = [e \in Ents |-> 0]
    /\ lucky = {}
    /\ sinceBred = [e \in Ents |-> -1] /\ lastGap = [e \in Ents |-> -1]
    /\ huntTarget = [e \in Ents |-> 0] /\ ducksEaten = [e \in Ents |-> 0]
    /\ eatenEmits = [e \in Ents |-> 0] /\ staleCatch = FALSE
    /\ birdState = [e \in Ents |-> "idle"] /\ layCount = [e \in Ents |-> 0]
    /\ ducksFrom = [e \in Ents |-> 0]
    /\ age = [e \in Ents |-> 0]
    /\ dayNightCycle = 0 /\ isNight = FALSE
    /\ domMap = {}
    /\ ufoCheckCooldown = 10
    /\ mutResult = [kind |-> "none", value |-> 0]

\* the state outside engine, registry and world at construction; the page
\* runs on a desktop browser unless a specification says otherwise
\* no call of genomix.mutate is to be made
NoMutate ==
    mutArgs = [parentGenome |-> 0, mutationIntensity |-> 0, randomSeed |-> 0]

AuxInitOn(platforms) ==
    /\ LoopInit0 /\ BusInit0 /\ GridInit0 /\ CallInit0 /\ isMobile \in platforms
    /\ NoMutate

AuxInit == AuxInitOn({FALSE})

EngineInit ==
    /\ isRunning = FALSE
    /\ lastTime = 0
    /\ rafId = 0
    /\ rafPending = {}
    /\ nextRaf = 1
    /\ now \in 0..MaxTime          \* performance.now() at page start
    /\ cbTime = 0
    /\ prevLast = 0
    /\ ran = FALSE
    /\ dt = 0
    /\ sysCalls = 0
    /\ tickLog = <<>>
    /\ RegInit
    /\ isPaused = FALSE
    /\ entLimit = MaxEnt
    /\ AuxInit
    /\ pc = "engine"

\* Engine.start()
Start ==
    /\ nextRaf <= MaxRaf
    /\ IF isRunning
         THEN UNCHANGED <<isRunning, rafId, rafPending, nextRaf>>
         ELSE /\ isRunning' = TRUE
              /\ rafId' = nextRaf
              /\ rafPending' = rafPending \cup {nextRaf}
              /\ nextRaf' = nextRaf + 1
    /\ UNCHANGED <<lastTime, now, cbTime, prevLast, ran, dt, sysCalls, tickLog>>
    /\ UNCHANGED <<regVars, obsVars, worldVars, auxVars, entLimit, pc>>

\* Engine.stop()
Stop ==
    /\ isRunning' = FALSE
    /\ rafPending' = IF rafId # 0 THEN rafPending \ {rafId} ELSE rafPending
    /\ UNCHANGED <<lastTime, rafId, nextRaf, now, cbTime, prevLast, ran, dt,
                   sysCalls, tickLog>>
    /\ UNCHANGED <<regVars, obsVars, worldVars, auxVars, entLimit, pc>>

\* The browser runs a pending animation-frame callback: Engine._loop(currentTime)
Frame ==
    \E id \in rafPending, currentTime \in (now + 1)..MaxTime :
        LET elapsed == currentTime - lastTime IN
        /\ now' = currentTime
        /\ cbTime' = currentTime
        /\ prevLast' = lastTime
        /\ IF ~isRunning
             THEN \* if (!this.isRunning) return
                  /\ rafPending' = rafPending \ {id}
                  /\ ran' = FALSE
                  /\ sysCalls' = 0
                  /\ UNCHANGED <<lastTime, rafId, nextRaf, dt, tickLog>>
             ELSE /\ nextRaf <= MaxRaf
                  \* this._rafId = requestAnimationFrame(this._loop)
                  /\ rafId' = nextRaf
                  /\ rafPending' = (rafPending \ {id}) \cup {nextRaf}
                  /\ nextRaf' = nextRaf + 1
                  /\ IF TooEarly(elapsed)
                       THEN /\ ran' = FALSE
                            /\ sysCalls' = 0
                            /\ UNCHANGED <<lastTime, dt, tickLog>>
                       ELSE /\ ran' = TRUE
                            /\ dt' = ClampDt(elapsed)
                            /\ lastTime' = NewLastTime(currentTime, elapsed)
                            \* for (const system of this.systems) system.update(dt, currentTime)
                            /\ sysCalls' = NumSystems
                            /\ tickLog' = Remember(tickLog, currentTime)
        /\ UNCHANGED isRunning
        /\ UNCHANGED <<regVars, obsVars, worldVars, auxVars, entLimit, pc>>

EngineNext == Start \/ Stop \/ Frame

SpecEngine == EngineInit /\ [][EngineNext]_vars

\* the engine, constructed and not started (the state the other
\* specifications keep it in)
EngineInit0 ==
    /\ isRunning = FALSE
    /\ lastTime = 0
    /\ rafId = 0
    /\ rafPending = {}
    /\ nextRaf = 1
    /\ now = 0
    /\ cbTime = 0
    /\ prevLast = 0
    /\ ran = FALSE
    /\ dt = 0
    /\ sysCalls = 0
    /\ tickLog = <<>>

(***************************************************************************)
(* SpecLoop: the Engine with registered systems that start and stop it and *)
(* publish on an EventBus                                                  *)
(***************************************************************************)
\* the subscriber lists of topic "A" the bus starts with
LoopSubscribers == {<<>>, <<"h1", "h2">>, <<"h1", "bad", "h2">>, <<"once", "h1">>}

\* how far the clock advances between two frame callbacks
FrameSteps == {1, targetFrameMs}

\* the engine as the systems loop sees and changes it
LoopState ==
    [isRunning |-> isRunning, rafId |-> rafId, rafPending |-> rafPending,
     nextRaf |-> nextRaf, callLog |-> <<>>, subs |-> subs, calls |-> <<>>,
     thrown |-> FALSE]

SetEngine(L) ==
    /\ isRunning' = L.isRunning
    /\ rafId' = L.rafId
    /\ rafPending' = L.rafPending
    /\ nextRaf' = L.nextRaf

LoopIdle ==
    UNCHANGED <<regVars, obsVars, worldVars, gridVars, callVars, handles, entLimit, pc>>

\* engine.addSystem(system)
LoopAddSystem ==
    \E k \in SystemKinds :
        /\ pc = "loop"
        /\ Len(systems) < MaxSystems
        /\ systems' = Append(systems, k)
        /\ UNCHANGED <<engVars, callLog, escaped, everEscaped, subs, handlerLog>>
        /\ LoopIdle

\* engine.start(), called between two frames
LoopStart ==
    /\ pc = "loop"
    /\ nextRaf <= MaxRaf
    /\ SetEngine(EngStart(LoopState))
    /\ UNCHANGED <<lastTime, now, cbTime, prevLast, ran, dt, sysCalls, tickLog>>
    /\ UNCHANGED <<loopVars, subs, handlerLog>>
    /\ LoopIdle

\* engine.stop(), called between two frames
LoopStop ==
    /\ pc = "loop"
    /\ SetEngine(EngStop(LoopState))
    /\ UNCHANGED <<lastTime, now, cbTime, prevLast, ran, dt, sysCalls, tickLog>>
    /\ UNCHANGED <<loopVars, subs, handlerLog>>
    /\ LoopIdle

\* The browser runs a pending animation-frame callback: Engine._loop(currentTime)
\* with the registered systems.  The tick history is not kept here.
LoopFrame ==
    \E id \in rafPending, step \in FrameSteps :
        LET currentTime == now + step
            elapsed     == currentTime - lastTime
            \* this._rafId = requestAnimationFrame(this._loop)
            L0 == [LoopState EXCEPT !.rafId = nextRaf,
                                    !.rafPending = (@ \ {id}) \cup {nextRaf},
                                    !.nextRaf = @ + 1]
            R  == RunSystems(L0, systems, 1, ClampDt(elapsed))
        IN
        /\ pc = "loop"
        /\ currentTime <= MaxTime
        /\ now' = currentTime
        /\ cbTime' = currentTime
        /\ prevLast' = lastTime
        /\ everEscaped' = (everEscaped \/ escaped)
        /\ IF ~isRunning
             THEN \* if (!this.isRunning) return
                  /\ rafPending' = rafPending \ {id}
                  /\ ran' = FALSE
                  /\ sysCalls' = 0
                  /\ callLog' = <<>>
                  /\ escaped' = FALSE
                  /\ handlerLog' = NoEmit
                  /\ UNCHANGED <<isRunning, lastTime, rafId, nextRaf, dt, subs>>
             ELSE IF TooEarly(elapsed)
                    THEN /\ nextRaf <= MaxRaf
                         /\ SetEngine(L0)
                         /\ ran' = FALSE
                         /\ sysCalls' = 0
                         /\ callLog' = <<>>
                         /\ escaped' = FALSE
                         /\ handlerLog' = NoEmit
                         /\ UNCHANGED <<lastTime, dt, subs>>
                    ELSE /\ R.nextRaf <= MaxRaf + 1
                         /\ ran' = TRUE
                         /\ dt' = ClampDt(elapsed)
                         /\ lastTime' = NewLastTime(currentTime, elapsed)
                         \* for (const system of this.systems) system.update(dt, currentTime)
                         /\ SetEngine(R)
                         /\ sysCalls' = Len(R.callLog)
                         /\ callLog' = R.callLog
                         /\ escaped' = R.thrown
                         /\ subs' = R.subs
                         /\ handlerLog' = [event |-> "A", calls |-> R.calls,
                                           thrown |-> R.thrown]
        /\ UNCHANGED <<systems, tickLog>>
        /\ LoopIdle

LoopInit ==
    /\ RegInit /\ EngineInit0 /\ LoopInit0 /\ GridInit0 /\ CallInit0 /\ NoMutate
    /\ isMobile = FALSE
    /\ subs \in {[EmptyBus EXCEPT !["A"] = l] : l \in LoopSubscribers}
    /\ handlerLog = NoEmit
    /\ handles = <<>>
    /\ isPaused = FALSE /\ entLimit = MaxEnt /\ pc = "loop"

LoopNext == LoopAddSystem \/ LoopStart \/ LoopStop \/ LoopFrame

SpecLoop == LoopInit /\ [][LoopNext]_vars

(***************************************************************************)
(* SpecBus: an EventBus driven by arbitrary on / off / emit sequences      *)
(***************************************************************************)
BusIdle == UNCHANGED <<engVars, regVars, obsVars, worldVars, loopVars, gridVars, callVars,
                       entLimit, pc>>

\* const unsubscribe = bus.on(event, cb): handles remembers the functions
\* on() returned, and whether each has been called
BusOn ==
    \E t \in Topics, h \in Handlers :
        /\ pc = "bus"
        /\ Len(handles) < MaxOn
        /\ subs' = On(subs, t, h)
        /\ handles' = Append(handles, [event |-> t, cb |-> h, used |-> FALSE])
        /\ handlerLog' = NoEmit
        /\ BusIdle

\* bus.off(event, cb)
BusOff ==
    \E t \in Topics, h \in Handlers :
        /\ pc = "bus"
        /\ subs' = Off(subs, t, h)
        /\ handlerLog' = NoEmit
        /\ UNCHANGED handles
        /\ BusIdle

\* calling the k-th function on() returned: () => this.off(event, cb)
Unsubscribe(k) ==
    /\ pc = "bus"
    /\ k \in 1..Len(handles)
    /\ subs' = Off(subs, handles[k].event, handles[k].cb)
    /\ handles' = [handles EXCEPT ![k].used = TRUE]
    /\ handlerLog' = NoEmit
    /\ BusIdle

BusUnsubscribe == \E k \in 1..MaxOn : Unsubscribe(k)

\* bus.emit(t, payload)
EmitTopic(t) ==
    LET R == Emit(subs, t) IN
    /\ pc = "bus"
    /\ Len(R.subs[t]) <= MaxSubs
    /\ subs' = R.subs
    /\ handlerLog' = [event |-> t, calls |-> R.calls, thrown |-> R.thrown]
    /\ UNCHANGED handles
    /\ BusIdle

BusEmit == \E t \in Topics : EmitTopic(t)

BusInit ==
    /\ RegInit /\ EngineInit0 /\ AuxInit
    /\ isPaused = FALSE /\ entLimit = MaxEnt /\ pc = "bus"

BusNext == BusOn \/ BusOff \/ BusUnsubscribe \/ BusEmit

SpecBus == BusInit /\ [][BusNext]_vars

(***************************************************************************)
(* SpecGrid: a SpatialGrid driven by arbitrary add / remove / update calls *)
(* and moves of its objects; SpecNearest: findNearest on arbitrary inputs  *)
(***************************************************************************)
\* the places (cell, index) of a grid
Places(g) == UNION {{<<c, i>> : i \in 1..Len(g[c])} : c \in DOMAIN g}

\* how many times object o is stored in the grid
Occurrences(g, o) == Cardinality({p \in Places(g) : g[p[1]][p[2]] = o})

GridIdle == UNCHANGED <<engVars, regVars, obsVars, worldVars, loopVars, busVars, callVars,
                        entLimit, pc>>

\* grid.add(o)
GAdd ==
    \E o \in Objs :
        /\ pc = "grid"
        /\ Cardinality(Places(sg)) < MaxEntries
        /\ sg' = GridAdd(sg, o, objPos[o][1], objPos[o][2])
        /\ lastQuery' = NoQuery
        /\ UNCHANGED objPos
        /\ GridIdle

\* grid.remove(o)
GRemove ==
    \E o \in Objs :
        /\ pc = "grid"
        /\ sg' = GridRemove(sg, o, objPos[o][1], objPos[o][2])
        /\ lastQuery' = NoQuery
        /\ UNCHANGED objPos
        /\ GridIdle

\* o.x = q.x; o.y = q.y with no call of update
GMove ==
    \E o \in Objs, q \in GridPositions :
        /\ pc = "grid"
        /\ objPos' = [objPos EXCEPT ![o] = q]
        /\ lastQuery' = NoQuery
        /\ UNCHANGED sg
        /\ GridIdle

\* oldX = o.x; oldY = o.y; o.x = q.x; o.y = q.y; grid.update(o, oldX, oldY)
MoveUpdate(o, q) ==
    /\ pc = "grid"
    /\ objPos' = [objPos EXCEPT ![o] = q]
    /\ sg' = GridUpdate(sg, o, objPos[o][1], objPos[o][2], q[1], q[2])
    /\ Cardinality(Places(sg')) <= MaxEntries
    /\ lastQuery' = [NoQuery EXCEPT !.moved = <<o, objPos[o][1], objPos[o][2]>>]
    /\ GridIdle

GMoveUpdate == \E o \in Objs, q \in GridPositions : MoveUpdate(o, q)

\* grid.getNearby(x, y, radius)
GGetNearby ==
    \E c \in GridPositions, r \in Radii :
        /\ pc = "grid"
        /\ lastQuery' = [NoQuery EXCEPT !.kind = "nearby", !.x = c[1],
                            !.y = c[2], !.r = r,
                            !.nearby = getNearby(sg, c[1], c[2], r)]
        /\ UNCHANGED <<sg, objPos>>
        /\ GridIdle

GridInit ==
    /\ RegInit /\ EngineInit0 /\ LoopInit0 /\ BusInit0 /\ CallInit0 /\ NoMutate
    /\ isMobile = FALSE
    /\ sg = [c \in SgCells |-> <<>>]
    /\ objPos \in [Objs -> GridPositions]
    /\ lastQuery = NoQuery
    /\ isPaused = FALSE /\ entLimit = MaxEnt /\ pc = "grid"

GridNext == GAdd \/ GRemove \/ GMove \/ GMoveUpdate \/ GGetNearby

SpecGrid == GridInit /\ [][GridNext]_vars

\* the candidate arrays handed to findNearest
Candidates ==
    {<<>>} \cup {<<a>> : a \in Objs} \cup {<<a, b>> : a \in Objs, b \in Objs}

\* EntityManager.findNearest(x, y, array, maxDist)
GFindNearest ==
    \E c \in GridPositions, arr \in Candidates, m \in MaxDists :
        /\ pc = "grid"
        /\ lastQuery' = [NoQuery EXCEPT !.kind = "nearest", !.x = c[1],
                            !.y = c[2], !.r = m, !.arr = arr,
                            !.nearest = findNearest(objPos, c[1], c[2], arr, m)]
        /\ UNCHANGED <<sg, objPos>>
        /\ GridIdle

NearestNext == GFindNearest \/ GMove

SpecNearest == GridInit /\ [][NearestNext]_vars

(***************************************************************************)
(* SpecRegistry: the EntityManager driven by arbitrary call sequences      *)
(***************************************************************************)
\* the pool a caller adds a species to, as the Spawners do
PoolOf(sp) ==
    CASE sp = "duck_mallard"  -> "ducks"
      [] sp = "shrimp"        -> "food"
      [] sp = "shrimp_baby"   -> "food"
      [] sp = "algae_healthy" -> "algae"
      [] OTHER                -> "islands"

\* the species the API driver adds: one of a grid-indexed pool, one of a
\* pool without grid
ApiSpecies == {"duck_mallard", "algae_healthy"}

\* where the API driver constructs its entities
SpawnPos == <<10, 10>>

EngIdle == UNCHANGED <<engVars, worldVars, auxVars, entLimit>>

\* a caller constructs an entity and adds it, gated by canSpawn as every
\* spawner is
ApiAdd ==
    \E sp \in ApiSpecies :
        /\ nextEnt <= entLimit
        /\ canSpawn(pools, ent, sp)
        /\ LET e  == nextEnt
               E1 == [ent EXCEPT ![e] = NewEntity(sp, SpawnPos)]
           IN  /\ ent' = E1
               /\ nextEnt' = nextEnt + 1
               /\ SetRegistry(Add(Registry, E1, e, PoolOf(sp), TRUE))
        /\ UNCHANGED <<obsVars, pc>> /\ EngIdle

\* a live entity of a grid-indexed pool changes its position and nobody
\* tells the grid (BaseEntity.moveFreely, BirdEntity._moveToTarget)
ApiMove ==
    \E e \in Created, pos \in Positions :
        /\ <<ent[e].x, ent[e].y>> # pos
        /\ PoolOf(ent[e].sp) \in GridPools
        /\ e \in InPools
        /\ ent' = [ent EXCEPT ![e].x = pos[1], ![e].y = pos[2]]
        /\ UNCHANGED <<pools, grids, removeQueue, nextEnt, destroyed,
                       removedEmits, spawnedEmits, obsVars, pc>>
        /\ EngIdle

\* an entity changes its position and reconciles the grid of its pool
\* with the position it came from (PreyEntity.update)
ApiMoveUpdate ==
    \E e \in Created, pos \in Positions :
        /\ <<ent[e].x, ent[e].y>> # pos
        /\ PoolOf(ent[e].sp) \in GridPools
        /\ Includes(grids[GRID_MAP(PoolOf(ent[e].sp))][Key(ent[e].x, ent[e].y)], e)
        /\ LET E1 == [ent EXCEPT ![e].x = pos[1], ![e].y = pos[2]]
           IN  /\ ent' = E1
               /\ SetRegistry(UpdateGrid(Registry, E1, e, ent[e].x, ent[e].y,
                                         GRID_MAP(PoolOf(ent[e].sp))))
        /\ UNCHANGED <<nextEnt, obsVars, pc>> /\ EngIdle

\* queueRemove on any entity object ever constructed: in a pool, already
\* queued, or already removed
ApiQueueRemove ==
    \E e \in Created :
        /\ SetRegistry(QueueRemove(Registry, e))
        /\ dupReq' = (dupReq \/ Includes(removeQueue, e))
        /\ UNCHANGED <<ent, nextEnt, lastFlush, pc>> /\ EngIdle

\* what a flushRemovals call in the current state is given (a repeated
\* request, a request for an entity in no pool, a request for an entity marked
\* dead), and how many entities leave the pools by it
FlushObservation(R) ==
    [dup     |-> dupReq,
     stale   |-> \E i \in 1..Len(removeQueue) : removeQueue[i] \notin InPools,
     dead    |-> \E i \in 1..Len(removeQueue) : ent[removeQueue[i]].dead,
     removed |-> Cardinality(InPools)
                   - Cardinality({e \in Ents : \E k \in PoolSet : Includes(R.pools[k], e)})]

ApiFlush ==
    LET R == FlushRemovals(Registry, ent) IN
    /\ SetRegistry(R)
    /\ dupReq' = FALSE
    /\ lastFlush' = FlushObservation(R)
    /\ UNCHANGED <<ent, nextEnt, pc>> /\ EngIdle

RegistryInit ==
    /\ RegInit /\ EngineInit0 /\ AuxInit
    /\ isPaused = FALSE /\ entLimit = MaxEnt /\ pc = "api"

RegistryNext == ApiAdd \/ ApiQueueRemove \/ ApiFlush

SpecRegistry == RegistryInit /\ [][RegistryNext]_vars

\* the same driver, with entities that also change position
MovesNext == RegistryNext \/ ApiMove \/ ApiMoveUpdate

SpecRegistryMoves == RegistryInit /\ [][MovesNext]_vars

(***************************************************************************)
(* SpecAdd: EntityManager.add called with arbitrary arguments              *)
(***************************************************************************)
\* the poolKey arguments: a pool with a grid of the same name, a pool whose
\* grid has another name, a pool without grid; a name that is no property of
\* the registry (it is a grid name), and two properties that are not pools
AddPoolKeys == {"ducks", "seaCreatures", "algae"}
OtherKeys == {"creatures", "_removeQueue", "allArrays"}
AddKeys == AddPoolKeys \cup OtherKeys

\* the registry as a subscriber of ENTITY_SPAWNED sees it: the push and the
\* grid insertion are done when the notification is emitted
SpawnedView(R, E, e, poolKey, useGrid) ==
    LET R1 == [R EXCEPT !.pools[poolKey] = Append(@, e)]
    IN  IF useGrid /\ poolKey \in GridPools
          THEN [R1 EXCEPT !.grids[GRID_MAP(poolKey)] =
                              GridAdd(@, e, E[e].x, E[e].y)]
          ELSE R1

\* add(entity, key, useGrid) for any key: this[key].push(entity) throws a
\* TypeError when this[key] is undefined; this._removeQueue is an array and
\* this.allArrays a getter that returns a fresh array, so for these keys the
\* push succeeds, GRID_MAP[key] is undefined and both notifications go out
AddCall(R, E, e, key, useGrid) ==
    CASE key \in PoolSet ->
            [R |-> Add(R, E, e, key, useGrid), threw |-> FALSE,
             seen |-> Includes(SpawnedView(R, E, e, key, useGrid).pools[key], e)]
      [] key = "_removeQueue" ->
            [R |-> [R EXCEPT !.queue = Append(@, e), !.spawnedEmits[e] = @ + 1],
             threw |-> FALSE, seen |-> FALSE]
      [] key = "allArrays" ->
            [R |-> [R EXCEPT !.spawnedEmits[e] = @ + 1],
             threw |-> FALSE, seen |-> FALSE]
      [] OTHER ->
            [R |-> R, threw |-> TRUE, seen |-> FALSE]

\* a caller constructs an entity and calls add with it
CallAdd ==
    \E key \in AddKeys, useGrid \in BOOLEAN, pos \in Positions :
        /\ pc = "add"
        /\ nextEnt <= entLimit
        /\ LET e  == nextEnt
               E1 == [ent EXCEPT ![e] = NewEntity("duck_mallard", pos)]
               A  == AddCall(Registry, E1, e, key, useGrid)
           IN  /\ ent' = E1
               /\ nextEnt' = nextEnt + 1
               /\ SetRegistry(A.R)
               /\ lastAdd' = [e |-> e, key |-> key, useGrid |-> useGrid,
                              threw |-> A.threw, seen |-> A.seen]
        /\ UNCHANGED <<obsVars, pc>>
        /\ UNCHANGED <<engVars, worldVars, loopVars, busVars, gridVars, entLimit>>
        /\ UNCHANGED <<ids, entId, seagrassTimers, timers, onIsland, hatching,
                       canBreed, foreignWrites, waterPollution, biodiversity, lifetime,
                       lateVars>>

\* queueRemove between two add calls
CallQueueRemove ==
    /\ pc = "add"
    /\ ApiQueueRemove

AddInit ==
    /\ RegInit /\ EngineInit0 /\ AuxInit
    /\ isPaused = FALSE /\ entLimit = MaxAddEnt /\ pc = "add"

AddNext == CallAdd \/ CallQueueRemove

SpecAdd == AddInit /\ [][AddNext]_vars


(***************************************************************************)
(* Spec: the wired game (main.js).  A tick is the engine calling the       *)
(* eleven systems in registration order; pc is the system that runs next   *)
(* ("idle" between two ticks).  JavaScript is single-threaded: button and  *)
(* click handlers run only between ticks.  Time is abstracted: whether a   *)
(* lifetime has run out, a random draw succeeds or a timer is due is a     *)
(* nondeterministic choice.  The game's entities stay where they are       *)
(* constructed; movement against the grid is the subject of                *)
(* SpecRegistryMoves.                                                      *)
(***************************************************************************)
GameIdle == UNCHANGED <<engVars, dupReq, auxVars, entLimit>>

\* a spawner may construct one more entity object
Budget == nextEnt <= entLimit

\* the registry and the entity objects as one value: what a system works on
Game == [R |-> Registry, E |-> ent]

SetGame(S) == SetRegistry(S.R) /\ ent' = S.E

IsPrey(sp) == sp \in {"shrimp", "shrimp_baby"}

\* Spawners.addBird(): new BirdEntity, add(duck, 'ducks', true)
addBird(S, e) ==
    IF ~canSpawn(S.R.pools, S.E, "duck_mallard") THEN S
    ELSE LET E1 == [S.E EXCEPT ![e] = NewEntity("duck_mallard", SpawnPos)]
         IN  [R |-> Add(S.R, E1, e, "ducks", TRUE), E |-> E1]

\* Spawners.addFood(): a falling shrimp, add(shrimp, 'food') without grid
addFood(S, e) ==
    IF ~canSpawn(S.R.pools, S.E, "shrimp") THEN S
    ELSE LET E1 == [S.E EXCEPT ![e] =
                       [NewEntity("shrimp", SpawnPos) EXCEPT !.falling = TRUE]]
         IN  [R |-> Add(S.R, E1, e, "food", FALSE), E |-> E1]

\* Spawners.addFoodAt(x, y): a shrimp already in the water; the spawner puts
\* it into the food grid itself and adds it to the pool without grid
addFoodAt(S, e) ==
    IF ~canSpawn(S.R.pools, S.E, "shrimp") THEN S
    ELSE LET E1 == [S.E EXCEPT ![e] = NewEntity("shrimp", SpawnPos)]
             R1 == [S.R EXCEPT !.grids["food"] =
                                  GridAdd(@, e, E1[e].x, E1[e].y)]
         IN  [R |-> Add(R1, E1, e, "food", FALSE), E |-> E1]

\* Spawners.spawnBabyShrimp(x, y): add(baby, 'food', true)
spawnBabyShrimp(S, e) ==
    IF ~canSpawn(S.R.pools, S.E, "shrimp_baby") THEN S
    ELSE LET E1 == [S.E EXCEPT ![e] = NewEntity("shrimp_baby", SpawnPos)]
         IN  [R |-> Add(S.R, E1, e, "food", TRUE), E |-> E1]

\* Spawners.addAlgae(): the descriptor drawn is HEALTHY; add(entity, 'algae')
addAlgae(S, e) ==
    IF ~canSpawn(S.R.pools, S.E, "algae_healthy") THEN S
    ELSE LET E1 == [S.E EXCEPT ![e] = NewEntity("algae_healthy", SpawnPos)]
         IN  [R |-> Add(S.R, E1, e, "algae", FALSE), E |-> E1]

\* a spawner call made by a handler between two ticks; the object counter
\* advances when an object was constructed
Spawned(S) ==
    /\ SetGame(S)
    /\ nextEnt' = IF S.E[nextEnt].sp # "none" THEN nextEnt + 1 ELSE nextEnt

\* window.gameActions.addBird
UiAddBird ==
    /\ pc = "idle" /\ Budget
    /\ Spawned(addBird(Game, nextEnt))
    /\ UNCHANGED <<lastFlush, isPaused, pc>> /\ GameIdle

\* window.gameActions.addFood
UiAddFood ==
    /\ pc = "idle" /\ Budget
    /\ Spawned(addFood(Game, nextEnt))
    /\ UNCHANGED <<lastFlush, isPaused, pc>> /\ GameIdle

\* the container's click handler: spawners.addFoodAt(x, y)
UiClickFood ==
    /\ pc = "idle" /\ Budget
    /\ Spawned(addFoodAt(Game, nextEnt))
    /\ UNCHANGED <<lastFlush, isPaused, pc>> /\ GameIdle

\* window.gameActions.addAlgae
UiAddAlgae ==
    /\ pc = "idle" /\ Budget
    /\ Spawned(addAlgae(Game, nextEnt))
    /\ UNCHANGED <<lastFlush, isPaused, pc>> /\ GameIdle

\* window.gameActions.togglePause
UiTogglePause ==
    /\ pc = "idle"
    /\ isPaused' = ~isPaused
    /\ UNCHANGED <<regVars, lastFlush, pc>> /\ GameIdle

\* ---- 1. flush: entities.flushRemovals() ----
TickFlush ==
    /\ pc = "idle"
    /\ LET R == FlushRemovals(Registry, ent)
       IN  /\ SetRegistry(R)
           /\ lastFlush' = FlushObservation(R)
    /\ pc' = "ai"
    /\ UNCHANGED <<ent, nextEnt, isPaused>> /\ GameIdle

\* a system that writes none of the modelled state
Pass(from, to) ==
    /\ pc = from
    /\ pc' = to
    /\ UNCHANGED <<regVars, lastFlush, isPaused>> /\ GameIdle

\* ---- 2. AISystem.update: _think of ducks and predators (sets targets) ----
StepAI ==
    /\ pc = "ai"
    /\ pc' = "movement"
    /\ lastFlush' = NoFlush
    /\ UNCHANGED <<regVars, isPaused>> /\ GameIdle

\* ---- 3. MovementSystem.update: no entity sets _usesMovementSystem ----
StepMovement == Pass("movement", "reproduction")

\* the shrimp pairs _processShrimpReproduction can find: a is an adult with
\* hunger >= 60, b another adult (cooldowns and the random draw are choices)
ShrimpPairs(S) ==
    {ab \in Ents \X Ents :
        /\ ab[1] # ab[2]
        /\ Includes(S.R.pools["food"], ab[1])
        /\ Includes(S.R.pools["food"], ab[2])
        /\ S.E[ab[1]].sp = "shrimp" /\ S.E[ab[1]].fed
        /\ S.E[ab[2]].sp = "shrimp"}

\* _spawnShrimpBabies: num calls of spawnBabyShrimp, each gated by canSpawn;
\* n is the next entity object
RECURSIVE SpawnShrimpBabies(_, _, _)
SpawnShrimpBabies(S, n, num) ==
    IF num = 0 THEN [S |-> S, n |-> n]
    ELSE LET S1 == spawnBabyShrimp(S, n)
         IN  SpawnShrimpBabies(S1, IF S1 = S THEN n ELSE n + 1, num - 1)

\* ---- 4. ReproductionSystem.update (fish and mammal pools are empty) ----
StepReproduction ==
    /\ pc = "reproduction"
    /\ pc' = "pollution"
    /\ \/ UNCHANGED regVars
       \/ /\ ~isPaused
          /\ ShrimpPairs(Game) # {}
          /\ \E num \in 1..3 :
                /\ nextEnt + num - 1 <= entLimit
                /\ LET out == SpawnShrimpBabies(Game, nextEnt, num)
                   IN  SetGame(out.S) /\ nextEnt' = out.n
    /\ UNCHANGED <<lastFlush, isPaused>> /\ GameIdle

\* the algae loop of PollutionSystem.update: queueRemove for every alga whose
\* lifetime has run out (the set exp), in pool order
RECURSIVE ExpireAlgae(_, _, _)
ExpireAlgae(R, arr, exp) ==
    IF arr = <<>> THEN R
    ELSE ExpireAlgae(IF Head(arr) \in exp THEN QueueRemove(R, Head(arr)) ELSE R,
                     Tail(arr), exp)

\* ---- 5. PollutionSystem.update ----
StepPollution ==
    /\ pc = "pollution"
    /\ pc' = "entityUpdate"
    /\ IF isPaused THEN UNCHANGED regVars
       ELSE LET algaePools == pools["algae"] \o pools["seagrass"] \o pools["kelp"]
            IN  \E exp \in SUBSET {algaePools[i] : i \in 1..Len(algaePools)} :
                   /\ SetRegistry(ExpireAlgae(Registry, algaePools, exp))
                   /\ UNCHANGED <<ent, nextEnt>>
    /\ UNCHANGED <<lastFlush, isPaused>> /\ GameIdle

\* arr reversed: for (let i = arr.length - 1; i >= 0; i--)
RECURSIVE Reverse(_)
Reverse(arr) == IF arr = <<>> THEN <<>> ELSE Append(Reverse(Tail(arr)), Head(arr))

\* the pools of allArrays laid end to end, each reversed or not
RECURSIVE Flatten(_, _, _)
Flatten(P, k, reversed) ==
    IF k > Len(AllArrays) THEN <<>>
    ELSE (IF reversed THEN Reverse(P[AllArrays[k]]) ELSE P[AllArrays[k]])
            \o Flatten(P, k + 1, reversed)

\* what one update() call of an entity may do in the model
NoEvent == [kind |-> "none", target |-> 0]

\* BirdEntity.update: dies of old age, or reaches its target food (chosen by
\* an earlier _think, so possibly removed since) and eats it
BirdEvents(S, e) ==
    {NoEvent, [kind |-> "die", target |-> 0]}
       \cup {[kind |-> "eat", target |-> f] : f \in {o \in Ents : IsPrey(S.E[o].sp)}}

\* PreyEntity.update: a baby grows up; a falling shrimp falls on or enters the
\* water; a shrimp in the water eats an alga of the pool or runs out of
\* lifetime
PreyEvents(S, e) ==
    IF S.E[e].falling
      THEN {NoEvent, [kind |-> "enter", target |-> 0]}
      ELSE {NoEvent, [kind |-> "die", target |-> 0]}
             \cup (IF S.E[e].sp = "shrimp_baby"
                     THEN {[kind |-> "grow", target |-> 0]} ELSE {})
             \cup {[kind |-> "eat", target |-> a] :
                        a \in {S.R.pools["algae"][i] : i \in 1..Len(S.R.pools["algae"])}}

\* the positions an update may move its entity to
PositionList == << <<10, 10>>, <<160, 10>> >>

\* the position changes of one update() call: a bird by _moveToTarget or
\* moveFreely, which tell no grid; a shrimp in the water by its swim step,
\* which calls entities.grids.food.update(this, oldX, oldY)
MoveEvents(S, e) ==
    IF S.E[e].sp = "duck_mallard" \/ (IsPrey(S.E[e].sp) /\ ~S.E[e].falling)
      THEN {[kind |-> "move", target |-> k] : k \in 1..Len(PositionList)}
      ELSE {}

Events(S, e) ==
    CASE S.E[e].sp = "duck_mallard" -> BirdEvents(S, e)
      [] IsPrey(S.E[e].sp)          -> PreyEvents(S, e)
      [] OTHER                      -> {NoEvent}     \* AlgaeEntity.update

\* the effect of entity e's update() when ev happens in it
Update(S, e, ev) ==
    CASE ev.kind = "die"   -> [S EXCEPT !.E[e].dead = TRUE]
      [] ev.kind = "grow"  -> [S EXCEPT !.E[e].sp = "shrimp"]
      [] ev.kind = "enter" ->
            [S EXCEPT !.E[e].falling = FALSE,
                      !.R.grids["food"] = GridAdd(@, e, S.E[e].x, S.E[e].y)]
      [] ev.kind = "eat"   ->
            [S EXCEPT !.E[e].fed = (IsPrey(S.E[e].sp) \/ @),
                      !.R = QueueRemove(@, ev.target)]
      [] ev.kind = "move"  ->
            LET pos == PositionList[ev.target]
                S1  == [S EXCEPT !.E[e].x = pos[1], !.E[e].y = pos[2]]
            IN  IF IsPrey(S.E[e].sp)
                  THEN [S1 EXCEPT !.R.grids["food"] =
                            GridUpdate(@, e, S.E[e].x, S.E[e].y, pos[1], pos[2])]
                  ELSE S1
      [] OTHER             -> S

\* every outcome of calling update() on the entities of todo, in order
RECURSIVE UpdateAll(_, _)
UpdateAll(S, todo) ==
    IF todo = <<>> THEN {S}
    ELSE UNION {UpdateAll(Update(S, Head(todo), ev), Tail(todo)) :
                   ev \in Events(S, Head(todo))}

\* for (const e of arr) if (e.dead) entities.queueRemove(e)
RECURSIVE QueueDead(_, _)
QueueDead(S, todo) ==
    IF todo = <<>> THEN S
    ELSE QueueDead(IF S.E[Head(todo)].dead
                     THEN [S EXCEPT !.R = QueueRemove(@, Head(todo))] ELSE S,
                   Tail(todo))

\* ---- 6. per-entity update() and the marking of the dead ----
StepEntityUpdate ==
    /\ pc = "entityUpdate"
    /\ pc' = "algaeSpawn"
    /\ IF isPaused THEN UNCHANGED regVars
       ELSE \E S \in UpdateAll(Game, Flatten(pools, 1, TRUE)) :
               /\ SetGame(QueueDead(S, Flatten(S.R.pools, 1, FALSE)))
               /\ UNCHANGED nextEnt
    /\ UNCHANGED <<lastFlush, isPaused>> /\ GameIdle

\* ---- 7. natural algae spawning: the timer is due or not ----
StepAlgaeSpawn ==
    /\ pc = "algaeSpawn"
    /\ pc' = "dayNight"
    /\ \/ UNCHANGED regVars
       \/ /\ ~isPaused /\ Budget
          /\ Spawned(addAlgae(Game, nextEnt))
    /\ UNCHANGED <<lastFlush, isPaused>> /\ GameIdle

\* ---- 8. day/night, 9. RenderSystem, 10. GameUI, 11. UFO ----
StepDayNight == Pass("dayNight", "render")
StepRender   == Pass("render", "ui")
StepUI       == Pass("ui", "ufo")
StepUFO      == Pass("ufo", "idle")

\* main.js has constructed bus, world, registry, spawners and systems; the
\* entities of the initial scene are added by the spawner actions
GameStart ==
    RegInit /\ EngineInit0 /\ AuxInit /\ isPaused = FALSE /\ pc = "idle"

GameInit == GameStart /\ entLimit = MaxEnt

GameNext ==
    \/ UiAddBird \/ UiAddFood \/ UiClickFood \/ UiAddAlgae \/ UiTogglePause
    \/ TickFlush \/ StepAI \/ StepMovement \/ StepReproduction
    \/ StepPollution \/ StepEntityUpdate \/ StepAlgaeSpawn
    \/ StepDayNight \/ StepRender \/ StepUI \/ StepUFO

Spec == GameInit /\ [][GameNext]_vars

\* every outcome of calling update() on the entities of todo, in order, with
\* the position changes
RECURSIVE UpdateAllMoving(_, _)
UpdateAllMoving(S, todo) ==
    IF todo = <<>> THEN {S}
    ELSE UNION {UpdateAllMoving(Update(S, Head(todo), ev), Tail(todo)) :
                   ev \in Events(S, Head(todo)) \cup MoveEvents(S, Head(todo))}

\* the per-entity update system, positions included
StepEntityUpdateMoving ==
    /\ pc = "entityUpdate"
    /\ pc' = "algaeSpawn"
    /\ IF isPaused THEN UNCHANGED regVars
       ELSE \E S \in UpdateAllMoving(Game, Flatten(pools, 1, TRUE)) :
               /\ SetGame(QueueDead(S, Flatten(S.R.pools, 1, FALSE)))
               /\ UNCHANGED nextEnt
    /\ UNCHANGED <<lastFlush, isPaused>> /\ GameIdle

MotionNext ==
    \/ UiAddBird \/ UiAddFood \/ UiClickFood \/ UiAddAlgae \/ UiTogglePause
    \/ TickFlush \/ StepAI \/ StepMovement \/ StepReproduction
    \/ StepPollution \/ StepEntityUpdateMoving \/ StepAlgaeSpawn
    \/ StepDayNight \/ StepRender \/ StepUI \/ StepUFO

\* the wired game with entities that change position in their update
SpecMotion == GameInit /\ [][MotionNext]_vars

\* the wired game with room for one more entity object: two shrimp, the alga
\* one of them feeds on, and their offspring
GrowthInit == GameStart /\ entLimit = MaxGrowthEnt

SpecGrowth == GrowthInit /\ [][GameNext]_vars

(***************************************************************************)
(* SpecIds: the spawners that draw entity ids from the registry's counters *)
(***************************************************************************)
\* the species a spawner of SpecIds constructs, with the pool it adds to and
\* the counter it takes the id from
\*   addAlgae(type): nextAlgaeId for every type; pool by isSeagrass / isKelp
\*   addKelp(): nextKelpId;  addSeagrass(): nextSeagrassId
\*   spawnFish(def): nextFishId; pool octopi, fish or seaCreatures
\*   addSeaCreature(): nextCreatureId; pool seaCreatures
SpawnCalls ==
    {[fn |-> "addAlgae",       sp |-> "algae_healthy", pool |-> "algae",        ctr |-> "nextAlgaeId"],
     [fn |-> "addAlgae",       sp |-> "kelp",          pool |-> "kelp",         ctr |-> "nextAlgaeId"],
     [fn |-> "addAlgae",       sp |-> "seagrass",      pool |-> "seagrass",     ctr |-> "nextAlgaeId"],
     [fn |-> "addKelp",        sp |-> "kelp",          pool |-> "kelp",         ctr |-> "nextKelpId"],
     [fn |-> "addFish",        sp |-> "fish_salmon",   pool |-> "fish",         ctr |-> "nextFishId"],
     [fn |-> "addFish",        sp |-> "fish_crab",     pool |-> "seaCreatures", ctr |-> "nextFishId"],
     [fn |-> "addOctopus",     sp |-> "octopus",       pool |-> "octopi",       ctr |-> "nextFishId"],
     [fn |-> "addSeaCreature", sp |-> "seal",          pool |-> "seaCreatures", ctr |-> "nextCreatureId"]}

\* addSeagrass(nearIsland), which only timers call
SeagrassCall == [fn |-> "addSeagrass", sp |-> "seagrass", pool |-> "seagrass",
                 ctr |-> "nextSeagrassId"]

\* the seagrass timers addIsland sets for a small island
SmallIslandSeagrass == 2

\* bound on the addSeagrass timers pending at once
MaxSeagrassTimers == 3

\* a spawner: canSpawn, new Entity(this.entities.<counter>++, ...), add
SpawnWithId(c) ==
    /\ Budget
    /\ canSpawn(pools, ent, c.sp)
    /\ LET e  == nextEnt
           E1 == [ent EXCEPT ![e] = NewEntity(c.sp, SpawnPos)]
       IN  /\ ent' = E1
           /\ nextEnt' = nextEnt + 1
           /\ entId' = [entId EXCEPT ![e] = ids[c.ctr]]
           /\ ids' = [ids EXCEPT ![c.ctr] = @ + 1]
           /\ SetRegistry(Add(Registry, E1, e, c.pool, c.pool \in GridPools))

IdsIdle ==
    UNCHANGED <<engVars, obsVars, worldVars, loopVars, busVars, gridVars,
                lastAdd, timers, onIsland, hatching, canBreed, foreignWrites,
                waterPollution, biodiversity, lifetime, lateVars, entLimit, pc>>

\* window.gameActions: addAlgae(type), addKelp, addFish(id), addOctopus,
\* addSeaCreature
IdSpawn ==
    \E c \in SpawnCalls :
        /\ pc = "ids"
        /\ SpawnWithId(c)
        /\ UNCHANGED seagrassTimers
        /\ IdsIdle

\* Spawners.addIsland('small'): an Island (no speciesDef) with the next island
\* id, and one addSeagrass timer per seagrass
IdAddIsland ==
    /\ pc = "ids"
    /\ Budget
    /\ Len(pools["islands"]) < 8
    /\ seagrassTimers + SmallIslandSeagrass <= MaxSeagrassTimers
    /\ LET e  == nextEnt
           E1 == [ent EXCEPT ![e] = [NewEntity("none", SpawnPos) EXCEPT !.sp = "island"]]
       IN  /\ ent' = E1
           /\ nextEnt' = nextEnt + 1
           /\ entId' = [entId EXCEPT ![e] = ids["nextIslandId"]]
           /\ ids' = [ids EXCEPT !["nextIslandId"] = @ + 1]
           /\ SetRegistry(Add(Registry, E1, e, "islands", FALSE))
    /\ seagrassTimers' = seagrassTimers + SmallIslandSeagrass
    /\ IdsIdle

\* a timer of addIsland fires: this.addSeagrass(island)
IdSeagrassTimer ==
    /\ pc = "ids"
    /\ seagrassTimers > 0
    /\ Budget \/ ~canSpawn(pools, ent, "seagrass")
    /\ seagrassTimers' = seagrassTimers - 1
    /\ IF canSpawn(pools, ent, "seagrass")
         THEN SpawnWithId(SeagrassCall)
         ELSE UNCHANGED <<regVars, entId, ids>>
    /\ IdsIdle

IdsInit ==
    /\ RegInit /\ EngineInit0 /\ AuxInit
    /\ isPaused = FALSE /\ entLimit = MaxEnt /\ pc = "ids"

IdsNext == IdSpawn \/ IdAddIsland \/ IdSeagrassTimer

SpecIds == IdsInit /\ [][IdsNext]_vars

(***************************************************************************)
(* SpecTimers: setTimeout callbacks that act for an entity                 *)
(***************************************************************************)
\* bound on the entities constructed under SpecTimers
MaxTimerEnt == 4

\* the eggs one _layEggsOnIsland call may lay: floor(fertility / 25) + 1
EggCounts == {1, 2}

\* new Entity(this.entities.<counter>++, ...); add(entity, pool, useGrid);
\* then queueRemove(q) when q is an entity
SpawnThenQueue(sp, pool, ctr, useGrid, q) ==
    LET e  == nextEnt
        E1 == [ent EXCEPT ![e] = NewEntity(sp, SpawnPos)]
        R1 == Add(Registry, E1, e, pool, useGrid)
    IN  /\ ent' = E1
        /\ nextEnt' = nextEnt + 1
        /\ entId' = [entId EXCEPT ![e] = ids[ctr]]
        /\ ids' = [ids EXCEPT ![ctr] = @ + 1]
        /\ SetRegistry(IF q \in Ents THEN QueueRemove(R1, q) ELSE R1)

TmIdle ==
    UNCHANGED <<engVars, obsVars, worldVars, loopVars, busVars, gridVars,
                lastAdd, waterPollution, biodiversity, lifetime, lateVars,
                entLimit, pc>>

\* the predator flags stay as they are
TmSame == UNCHANGED <<canBreed, foreignWrites>> /\ TmIdle

\* Spawners.addIsland('small')
TmAddIsland ==
    /\ pc = "timers"
    /\ Budget
    /\ Len(pools["islands"]) < 8
    /\ seagrassTimers + SmallIslandSeagrass <= MaxSeagrassTimers
    /\ SpawnThenQueue("island", "islands", "nextIslandId", FALSE, 0)
    /\ seagrassTimers' = seagrassTimers + SmallIslandSeagrass
    /\ UNCHANGED <<timers, onIsland, hatching>>
    /\ TmSame

\* a timer of addIsland fires: this.addSeagrass(island)
TmSeagrassTimer ==
    /\ pc = "timers"
    /\ seagrassTimers > 0
    /\ Budget \/ ~canSpawn(pools, ent, "seagrass")
    /\ seagrassTimers' = seagrassTimers - 1
    /\ IF canSpawn(pools, ent, "seagrass")
         THEN SpawnThenQueue("seagrass", "seagrass", "nextSeagrassId", FALSE, 0)
         ELSE UNCHANGED <<regVars, entId, ids>>
    /\ UNCHANGED <<timers, onIsland, hatching>>
    /\ TmSame

\* Spawners.addBird() and Spawners.addPredator(): canSpawn, construct, add;
\* addPredator returns early without an island
TmSpawn ==
    \E c \in {[sp |-> "duck_mallard", pool |-> "ducks", ctr |-> "nextDuckId", grid |-> TRUE],
              [sp |-> "cat", pool |-> "predators", ctr |-> "nextPredatorId", grid |-> FALSE]} :
        /\ pc = "timers"
        /\ Budget
        /\ c.pool = "predators" => Len(pools["islands"]) > 0
        /\ canSpawn(pools, ent, c.sp)
        /\ SpawnThenQueue(c.sp, c.pool, c.ctr, c.grid, 0)
        /\ UNCHANGED <<seagrassTimers, timers, onIsland, hatching>>
        /\ TmSame

\* BirdEntity._layEggsOnIsland(island, bus), reached from the bird's update in
\* state 'seeking-island': onIsland = true, one timer per egg and the timer
\* that resets onIsland, state and target
TmLayEggs ==
    \E e \in Ents, n \in EggCounts :
        /\ pc = "timers"
        /\ Includes(pools["ducks"], e) /\ ~ent[e].dead
        /\ Len(pools["islands"]) > 0
        /\ e \notin onIsland
        /\ \A t \in timers : t.e # e
        /\ onIsland' = onIsland \cup {e}
        /\ timers' = timers \cup {[fn |-> "createEgg", e |-> e, i |-> i] : i \in 1..n}
                            \cup {[fn |-> "idle", e |-> e, i |-> 0]}
        /\ UNCHANGED <<regVars, ids, entId, seagrassTimers, hatching>>
        /\ TmSame

\* MammalEntity.update: canBreed = true once the predator has eaten a duck and
\* its breedingCooldown (90 s after construction or breeding) has run out
TmFertile ==
    \E e \in Ents :
        /\ pc = "timers"
        /\ Includes(pools["predators"], e) /\ ~ent[e].dead
        /\ e \notin canBreed
        /\ \A t \in timers : t.e # e
        /\ canBreed' = canBreed \cup {e}
        /\ UNCHANGED <<regVars, ids, entId, seagrassTimers, timers, onIsland,
                       hatching, foreignWrites>>
        /\ TmIdle

\* the offspring one _breedWithPredator call may have: floor(random * 2) + 1
OffspringCounts == {1, 2}

\* MammalEntity._breedWithPredator(mate, entities, bus) called by e's _think:
\* this.canBreed = mate.canBreed = false (and both cooldowns), one timer per
\* offspring.  A = [canBreed, timers, foreign]
BreedWithPredator(A, e, mate, num) ==
    [canBreed |-> A.canBreed \ {e, mate},
     timers   |-> A.timers \cup {[fn |-> "offspring", e |-> e, i |-> i] : i \in 1..num},
     foreign  |-> A.foreign \cup {mate}]

\* what e._think(entities, bus, config) may do: a bird sets its own target
\* and state (not modelled); a predator that can breed and is not hungry
\* breeds with a mate _findPredatorMate finds in the predators pool
Think(A, e) ==
    {A} \cup
    (IF Includes(pools["predators"], e) /\ e \in A.canBreed
       THEN {BreedWithPredator(A, e, mate, num) :
                mate \in {p \in A.canBreed \ {e} : Includes(pools["predators"], p)},
                num \in OffspringCounts}
       ELSE {})

\* for (const e of pools) e._think(...), every outcome
RECURSIVE ThinkAll(_, _)
ThinkAll(A, todo) ==
    IF todo = <<>> THEN {A}
    ELSE UNION {ThinkAll(A1, Tail(todo)) : A1 \in Think(A, Head(todo))}

\* AISystem.update(dt): _think of the ducks and then of the predators
TmAI ==
    /\ pc = "timers"
    /\ ~isPaused
    /\ \E A \in ThinkAll([canBreed |-> canBreed, timers |-> timers, foreign |-> {}],
                          pools["ducks"] \o pools["predators"]) :
          /\ canBreed' = A.canBreed
          /\ timers' = A.timers
          /\ foreignWrites' = A.foreign
    /\ UNCHANGED <<regVars, ids, entId, seagrassTimers, onIsland, hatching>>
    /\ TmIdle

\* Egg.hatch(), from Egg.update or a click: once per egg
TmHatch ==
    \E e \in Ents :
        /\ pc = "timers"
        /\ Includes(pools["eggs"], e)
        /\ e \notin hatching
        /\ hatching' = hatching \cup {e}
        /\ timers' = timers \cup {[fn |-> "hatch", e |-> e, i |-> 0]}
        /\ UNCHANGED <<regVars, ids, entId, seagrassTimers, onIsland>>
        /\ TmSame

\* the per-entity update system: an entity that died in its update is queued
\* (main.js); MammalEntity._eatDuck queues the duck it caught
TmDie ==
    \E e \in Ents :
        /\ pc = "timers"
        /\ Includes(pools["ducks"], e) \/ Includes(pools["predators"], e)
        /\ ~ent[e].dead
        /\ ent' = [ent EXCEPT ![e].dead = TRUE]
        /\ SetRegistry(QueueRemove(Registry, e))
        /\ UNCHANGED <<nextEnt, ids, entId, seagrassTimers, timers, onIsland, hatching>>
        /\ TmSame

\* the flush system at the start of a tick
TmFlush ==
    /\ pc = "timers"
    /\ removeQueue # <<>>
    /\ SetRegistry(FlushRemovals(Registry, ent))
    /\ UNCHANGED <<ent, nextEnt, ids, entId, seagrassTimers, timers, onIsland, hatching>>
    /\ TmSame

\* what the callback of timer t does
\*   createEgg : bus.emit(EGG_HATCHED, {create: true}) -> Spawners.createEgg
\*   idle      : this.onIsland = false; this.state = 'idle'; this.target = null
\*   offspring : canSpawn(this.speciesDef), then add(baby, 'predators')
\*   hatch     : canSpawn(MALLARD), then add(duck, 'ducks', true); queueRemove(this)
Callback(t) ==
    CASE t.fn = "createEgg" ->
           /\ Budget
           /\ SpawnThenQueue("egg", "eggs", "nextEggId", FALSE, 0)
           /\ UNCHANGED onIsland
      [] t.fn = "idle" ->
           /\ onIsland' = onIsland \ {t.e}
           /\ UNCHANGED <<regVars, ids, entId>>
      [] t.fn = "offspring" ->
           /\ Budget \/ ~canSpawn(pools, ent, ent[t.e].sp)
           /\ IF canSpawn(pools, ent, ent[t.e].sp)
                THEN SpawnThenQueue(ent[t.e].sp, "predators", "nextPredatorId", FALSE, 0)
                ELSE UNCHANGED <<regVars, ids, entId>>
           /\ UNCHANGED onIsland
      [] t.fn = "hatch" ->
           /\ Budget \/ ~canSpawn(pools, ent, "duck_mallard")
           /\ IF canSpawn(pools, ent, "duck_mallard")
                THEN SpawnThenQueue("duck_mallard", "ducks", "nextDuckId", TRUE, t.e)
                ELSE /\ SetRegistry(QueueRemove(Registry, t.e))
                     /\ UNCHANGED <<ent, nextEnt, ids, entId>>
           /\ UNCHANGED onIsland

\* a pending timer fires
TmFire ==
    \E t \in timers :
        /\ pc = "timers"
        /\ timers' = timers \ {t}
        /\ Callback(t)
        /\ UNCHANGED <<seagrassTimers, hatching>>
        /\ TmSame

TimersInit ==
    /\ RegInit /\ EngineInit0 /\ AuxInit
    /\ isPaused = FALSE /\ entLimit = MaxTimerEnt /\ pc = "timers"

TimersNext ==
    \/ TmAddIsland \/ TmSeagrassTimer \/ TmSpawn \/ TmLayEggs \/ TmFertile \/ TmAI
    \/ TmHatch \/ TmDie \/ TmFlush \/ TmFire

SpecTimers == TimersInit /\ [][TimersNext]_vars

(***************************************************************************)
(* SpecPollution: the tick with the algae lifetimes, waterPollution and    *)
(* biodiversity.  waterPollution is counted in units of 1 / PollutionScale *)
(* point, so that every rate * dt of the model is an integer; biodiversity *)
(* in units of 1 / BioScale point, so that uniqueSpecies / maxSpecies and  *)
(* waterPollution * 0.5 are.                                               *)
(***************************************************************************)
\* the dt arguments of PollutionSystem.update, in seconds.  The engine passes
\* at most 0.1; with these every lifetime runs out and both clamps of
\* waterPollution are reached within the bounds.
DtSeconds == {50, 150}

\* bound on the entities constructed under SpecPollution
MaxPolEnt == 2
MaxSimTime == 4000

\* the algae descriptors: pollutionRate in units per second, maxAge in seconds
AlgaeSpecies == {"algae_healthy", "algae_toxic", "kelp", "seagrass"}

pollutionRate(sp) ==
    CASE sp = "algae_healthy" -> -2      \* -0.10
      [] sp = "algae_toxic"   -> 10      \*  0.50
      [] sp = "kelp"          -> -3      \* -0.15
      [] sp = "seagrass"      -> -1      \* -0.05

maxAge(sp) ==
    CASE sp = "algae_healthy" -> 60
      [] sp = "algae_toxic"   -> 45
      [] sp = "kelp"          -> 120
      [] sp = "seagrass"      -> 200

AlgaePoolOf(sp) ==
    CASE sp = "kelp" -> "kelp" [] sp = "seagrass" -> "seagrass" [] OTHER -> "algae"

\* mutant: the sum is not clamped from above
ClampPollution_NoCeiling(v) == Max(0, v)

\* Math.max(0, Math.min(100, v))
ClampPollution(v) == Max(0, Min(100 * PollutionScale, v))

\* the sum of pollutionRate * dt over the entities of arr
RECURSIVE Delta(_, _, _)
Delta(E, arr, d) ==
    IF arr = <<>> THEN 0
    ELSE pollutionRate(E[Head(arr)].sp) * d + Delta(E, Tail(arr), d)

\* the algae loop of PollutionSystem.update: a.lifetime -= dt, and
\* queueRemove(a) when a.lifetime <= 0.  P = [R, life]
RECURSIVE AgeAlgae(_, _, _)
AgeAlgae(P, arr, d) ==
    IF arr = <<>> THEN P
    ELSE LET a  == Head(arr)
             l  == P.life[a] - d
             P1 == [P EXCEPT !.life[a] = l]
         IN  AgeAlgae(IF l <= 0 THEN [P1 EXCEPT !.R = QueueRemove(@, a)] ELSE P1,
                      Tail(arr), d)

PolIdle ==
    UNCHANGED <<engVars, obsVars, loopVars, busVars, gridVars, lastAdd,
                timers, onIsland, hatching, canBreed, foreignWrites, lateVars,
                entLimit>>

\* Spawners.addAlgae / addSeagrass: new AlgaeEntity(...) with lifetime maxAge
SpawnAlga(sp, ctr) ==
    /\ SpawnThenQueue(sp, AlgaePoolOf(sp), ctr, FALSE, 0)
    /\ lifetime' = [lifetime EXCEPT ![nextEnt] = maxAge(sp)]

\* window.gameActions.addAlgae(type)
PolAddAlgae ==
    \E sp \in AlgaeSpecies :
        /\ pc = "idle" /\ Budget
        /\ canSpawn(pools, ent, sp)
        /\ SpawnAlga(sp, "nextAlgaeId")
        /\ UNCHANGED <<waterPollution, biodiversity, seagrassTimers, isPaused, pc>>
        /\ PolIdle

\* a timer of _onElixirOpened fires between two ticks: this.addSeagrass()
PolSeagrassTimer ==
    /\ pc = "idle"
    /\ seagrassTimers > 0
    /\ Budget \/ ~canSpawn(pools, ent, "seagrass")
    /\ seagrassTimers' = seagrassTimers - 1
    /\ IF canSpawn(pools, ent, "seagrass")
         THEN SpawnAlga("seagrass", "nextSeagrassId")
         ELSE UNCHANGED <<regVars, entId, ids, lifetime>>
    /\ UNCHANGED <<waterPollution, biodiversity, isPaused, pc>>
    /\ PolIdle

\* the pause button; the flush; systems 2 to 4 (AI, movement, reproduction),
\* which find no duck, predator, fish or shrimp in the pools; day/night,
\* RenderSystem.update and the UFO system, which write none of the modelled
\* state
PolPass ==
    \/ UiTogglePause \/ TickFlush \/ Pass("ai", "pollution")
    \/ StepDayNight \/ StepRender \/ StepUFO

\* ---- 5. PollutionSystem.update(dt) ----
PolStepPollution ==
    \E d \in DtSeconds :
        /\ pc = "pollution"
        /\ pc' = "entityUpdate"
        /\ IF isPaused
             THEN UNCHANGED <<regVars, lifetime, waterPollution>>
             ELSE LET algaePools == pools["algae"] \o pools["seagrass"] \o pools["kelp"]
                      P == AgeAlgae([R |-> Registry, life |-> lifetime], algaePools, d)
                  IN  /\ SetRegistry(P.R)
                      /\ lifetime' = P.life
                      /\ waterPollution' =
                            ClampPollution(waterPollution + Delta(ent, algaePools, d))
                      /\ UNCHANGED <<ent, nextEnt>>
        /\ UNCHANGED <<biodiversity, seagrassTimers, ids, entId, isPaused>>
        /\ PolIdle

\* [...this.entities.algae].filter(a => a.speciesDef.toxic).forEach(queueRemove)
RECURSIVE QueueToxic(_, _, _)
QueueToxic(R, E, arr) ==
    IF arr = <<>> THEN R
    ELSE QueueToxic(IF E[Head(arr)].sp = "algae_toxic" THEN QueueRemove(R, Head(arr)) ELSE R,
                    E, Tail(arr))

\* the seagrass timers _onElixirOpened sets
ElixirSeagrass == 3

\* ---- 6. the per-entity update: the algae do nothing; an octopus may open
\* an elixir, on which the bus calls Spawners._onElixirOpened ----
PolEntityUpdate ==
    /\ pc = "entityUpdate"
    /\ pc' = "algaeSpawn"
    /\ \/ UNCHANGED <<regVars, waterPollution, seagrassTimers>>
       \/ /\ ~isPaused
          /\ seagrassTimers + ElixirSeagrass <= MaxSeagrassTimers
          /\ SetRegistry(QueueToxic(Registry, ent, pools["algae"]))
          /\ waterPollution' = Max(0, waterPollution - 40 * PollutionScale)
          /\ seagrassTimers' = seagrassTimers + ElixirSeagrass
          /\ UNCHANGED <<ent, nextEnt>>
    /\ UNCHANGED <<biodiversity, lifetime, ids, entId, isPaused>>
    /\ PolIdle

\* ---- 7. natural algae spawning: without ducks and fish addAlgae() draws
\* the HEALTHY descriptor ----
PolAlgaeSpawn ==
    /\ pc = "algaeSpawn"
    /\ pc' = "dayNight"
    /\ \/ UNCHANGED <<regVars, ids, entId, lifetime>>
       \/ /\ ~isPaused /\ Budget
          /\ canSpawn(pools, ent, "algae_healthy")
          /\ SpawnAlga("algae_healthy", "nextAlgaeId")
    /\ UNCHANGED <<waterPollution, biodiversity, seagrassTimers, isPaused>>
    /\ PolIdle

\* the species ids found in the pools of allArrays
UniqueSpecies ==
    Cardinality({ent[e].sp : e \in {x \in Ents : \E k \in 1..Len(AllArrays) :
                                        Includes(pools[AllArrays[k]], x)}})

\* GameUI.updateBiodiversity(): balance - waterPollution * 0.5 - predatorPenalty,
\* clamped to [0, 100]; no predators in the pools
updateBiodiversity ==
    LET balance == Min(100 * BioScale, (UniqueSpecies * 100 * BioScale) \div SpeciesCount)
    IN  Max(0, Min(100 * BioScale,
                   balance - (waterPollution * BioScale) \div (2 * PollutionScale)))

\* ---- 10. GameUI.update: the throttled biodiversity update is due or not ----
PolUI ==
    /\ pc = "ui"
    /\ pc' = "ufo"
    /\ \/ UNCHANGED biodiversity
       \/ biodiversity' = updateBiodiversity
    /\ UNCHANGED <<regVars, waterPollution, lifetime, seagrassTimers, ids, entId, isPaused>>
    /\ PolIdle

PollutionInit ==
    /\ RegInit /\ EngineInit0 /\ AuxInit
    /\ isPaused = FALSE /\ entLimit = MaxPolEnt /\ pc = "idle"

PollutionNext ==
    \/ PolAddAlgae \/ PolSeagrassTimer \/ PolPass \/ PolStepPollution
    \/ PolEntityUpdate \/ PolAlgaeSpawn \/ PolUI

SpecPollution == PollutionInit /\ [][PollutionNext]_vars

(***************************************************************************)
(* Scheduler claims (checked under SpecEngine)                             *)
(***************************************************************************)
\* the 0.1 s clamp, in model units
DtCap == UnitsPerSecond \div 10

\* C8: every dt passed to a system equals min(elapsed/1000, 0.1) s, where
\* elapsed is the callback time minus the stored last-tick timestamp, and it
\* never exceeds 0.1 s, however long the gap (first callback included).
C8_DtClamped ==
    ran => /\ dt = (IF cbTime - prevLast > DtCap THEN DtCap ELSE cbTime - prevLast)
           /\ 10 * dt <= UnitsPerSecond

\* the first executed tick after start(), with a gap longer than the clamp
C8_Witness ==
    /\ ran
    /\ prevLast = 0
    /\ Len(tickLog) = 1
    /\ cbTime - prevLast > DtCap
    /\ dt = DtCap

\* a callback that arrives sooner than one frame interval after the last-tick
\* timestamp invokes no system and leaves the timestamp alone
C9_SkipEarly ==
    (cbTime - prevLast < targetFrameMs) => (sysCalls = 0 /\ lastTime = prevLast /\ ~ran)

\* C9 as stated: early callbacks are skipped, and any n executed ticks that lie
\* in a wall-clock interval of length L satisfy n <= L / targetFrameMs + 1.
C9_Original ==
    /\ C9_SkipEarly
    /\ \A i, j \in 1..Len(tickLog) :
          i < j => (j - i + 1) * targetFrameMs
                      <= (tickLog[j] - tickLog[i]) + targetFrameMs

\* C9 amended: early callbacks are skipped, and any n executed ticks that lie
\* in a wall-clock interval of length L satisfy n < L / targetFrameMs + 2
\* (the carried leftover lets two ticks lie closer than one frame interval).
C9_TickRateBound ==
    /\ C9_SkipEarly
    /\ \A i, j \in 1..Len(tickLog) :
          i < j => (j - i + 1) * targetFrameMs
                      < (tickLog[j] - tickLog[i]) + 2 * targetFrameMs

\* two executed ticks closer than one frame interval, then a skipped callback
C9_Witness ==
    /\ Len(tickLog) >= 2
    /\ tickLog[Len(tickLog)] - tickLog[Len(tickLog) - 1] < targetFrameMs
    /\ isRunning
    /\ cbTime > tickLog[Len(tickLog)]
    /\ cbTime - prevLast < targetFrameMs
    /\ sysCalls = 0

\* C10: after an executed tick the last-tick timestamp has advanced by the
\* whole frame intervals consumed (it is currentTime - elapsed mod
\* targetFrameMs), it never passes currentTime, and the leftover, less than
\* one frame interval, stays in the next callback's elapsed time.
C10_LastTimeAdvance ==
    ran => /\ lastTime = prevLast
                         + targetFrameMs * ((cbTime - prevLast) \div targetFrameMs)
           /\ lastTime <= cbTime
           /\ cbTime - lastTime < targetFrameMs

\* an executed tick that left a non-zero remainder behind
C10_Witness ==
    /\ ran
    /\ lastTime < cbTime
    /\ lastTime > prevLast
    /\ prevLast > 0

(***************************************************************************)
(* Registry claims (checked under SpecRegistry)                            *)
(***************************************************************************)
\* the number of pool entries, over all twelve pools, whose speciesDef.id is sp
LiveCount(sp) ==
    Cardinality({ki \in PoolSet \X Ents :
                    /\ ki[2] <= Len(pools[ki[1]])
                    /\ ent[pools[ki[1]][ki[2]]].sp = sp})

\* C3: once flushRemovals has removed an entity from its pool, no cell of any
\* spatial grid still holds a reference to it.
C3_Original == \A e \in Ents : destroyed[e] > 0 => e \notin InGrids

\* C4: canSpawn(D) is true exactly when the number of entities in the pools
\* with speciesDef.id = D.id is strictly below D.MAX_COUNT; callers gated by it
\* never add past the cap.
C4_CanSpawn ==
    \A sp \in SpeciesIds :
        /\ canSpawn(pools, ent, sp) <=> (LiveCount(sp) < MAX_COUNT(sp))
        /\ LiveCount(sp) <= MAX_COUNT(sp)

\* MAX_COUNT entities of a species were added, the one added last (so the
\* species stood at its cap) was queued and flushed, and canSpawn is true again
C4_Witness ==
    \E sp \in ApiSpecies, e \in Created :
        /\ ent[e].sp = sp
        /\ \A o \in Created : ent[o].sp = sp => o <= e
        /\ Cardinality({o \in Created : ent[o].sp = sp}) = MAX_COUNT(sp)
        /\ destroyed[e] = 1
        /\ removeQueue = <<>>
        /\ LiveCount(sp) = MAX_COUNT(sp) - 1
        /\ canSpawn(pools, ent, sp)

\* no entity is queued twice, and an entity is destroyed and announced as
\* removed exactly once, when it leaves its pool
C5_Once ==
    /\ \A i, j \in 1..Len(removeQueue) : i # j => removeQueue[i] # removeQueue[j]
    /\ \A e \in Ents :
          /\ destroyed[e] = removedEmits[e]
          /\ destroyed[e] = (IF e \in Created /\ e \notin InPools THEN 1 ELSE 0)

\* what one flushRemovals call does: exactly the queued entities that are in a
\* pool leave it, each destroyed once and announced once; the queue is empty
\* afterwards; requests for entities in no pool change nothing
C5_FlushEffect ==
    LET gone == {e \in InPools : Includes(removeQueue, e)} IN
    /\ removeQueue' = <<>>
    /\ pools' = [k \in PoolSet |-> SelectSeq(pools[k], LAMBDA o : o \notin gone)]
    /\ destroyed' = [e \in Ents |-> destroyed[e] + (IF e \in gone THEN 1 ELSE 0)]
    /\ removedEmits' = [e \in Ents |-> removedEmits[e] + (IF e \in gone THEN 1 ELSE 0)]
    /\ gone = {} => grids' = grids

\* C5: removal requests are idempotent and stale requests are silent: however
\* often an entity is queued before a flush, one flushRemovals removes exactly
\* that entity, destroys it once and emits ENTITY_REMOVED once; a second flush,
\* or the flush of a queued entity that is in no pool, changes no pool or grid
\* and emits nothing.
C5_IdempotentRemoval == [](C5_Once) /\ [][ApiFlush => C5_FlushEffect]_vars

\* the last flush was given a repeated request and a request for an entity
\* that was in no pool any more, and removed exactly one entity
C5_Witness ==
    /\ lastFlush.dup
    /\ lastFlush.stale
    /\ lastFlush.removed = 1
    /\ removeQueue = <<>>

(***************************************************************************)
(* Pipeline claims (checked under Spec)                                    *)
(***************************************************************************)
\* C1: in every reachable state of the wired game, for every species
\* descriptor D the number of pool entries whose speciesDef.id is D.id is at
\* most D.MAX_COUNT.
C1_Original == \A sp \in SpeciesIds : LiveCount(sp) <= MAX_COUNT(sp)

\* arr continues old: nothing was taken out of old, entries were at most
\* appended
Extends(old, arr) == Len(old) <= Len(arr) /\ SubSeq(arr, 1, Len(old)) = old

\* C2: immediately after the flush step of a tick the removal queue is empty
\* and no pool contains an entity that is marked dead or that was in the queue
\* the flush was given, whatever requests (repeated, or for entities already
\* removed) filled the queue.
C2_FlushLeavesNoDead ==
    [][TickFlush =>
         /\ removeQueue' = <<>>
         /\ \A k \in PoolSet : \A i \in 1..Len(pools'[k]) :
               /\ ~ent'[pools'[k][i]].dead
               /\ ~Includes(removeQueue, pools'[k][i])]_vars

\* just after a flush that was given a request for an entity marked dead and
\* a request for an entity that had left its pool before, and that removed
\* an entity
C2_Witness ==
    /\ pc = "ai"
    /\ lastFlush.dead
    /\ lastFlush.stale
    /\ lastFlush.removed >= 1

DecisionSteps == {"ai", "reproduction", "pollution", "entityUpdate", "algaeSpawn"}

\* C7: flushRemovals runs before every other system of a tick, and no later
\* step that reads pools to make decisions finds in a pool an entity that is
\* marked dead or is already queued for removal.
C7_Original ==
    pc \in DecisionSteps =>
        \A e \in InPools : ~ent[e].dead /\ ~Includes(removeQueue, e)

(***************************************************************************)
(* Systems-loop claims (checked under SpecLoop)                            *)
(***************************************************************************)
\* the i-th entry of the call log is the call of system i with the tick's dt
InOrder(log, d) ==
    \A i \in 1..Len(log) : log[i] = [idx |-> i, dt |-> d]

C12_SinglePending ==
    [][/\ Cardinality(rafPending') <= 1
       /\ ~isRunning' => rafPending' = {}
       /\ (LoopStart /\ isRunning) => UNCHANGED vars
       /\ (LoopStop /\ ~isRunning) => UNCHANGED vars
       /\ (now' # now /\ ran') => isRunning]_vars

\* a tick in which one system stopped the engine and a later one started it
\* again, in an engine that had been stopped and started before
C12_Witness ==
    /\ ran /\ isRunning
    /\ Len(callLog) = 3
    /\ systems = <<"start", "stop", "start">>
    /\ rafPending = {rafId}
    /\ nextRaf >= 5

\* the handler calls of the last frame callback that threw
Throwers == {i \in 1..Len(handlerLog.calls) :
                HandlerKind(handlerLog.calls[i]) = "throws"}

\* C15: an exception thrown by a subscriber during emit is caught neither by
\* the bus nor by the engine: the throwing call is the last handler call and
\* the emitting system the last system call of that frame callback, the
\* exception leaves the callback, and in a running engine the next callback is
\* already pending.
C15_ExceptionEscapes ==
    /\ escaped <=> Throwers # {}
    /\ escaped =>
        /\ Throwers = {Len(handlerLog.calls)}
        /\ callLog # <<>>
        /\ systems[callLog[Len(callLog)].idx] = "emit"
        /\ isRunning => (rafId # 0 /\ rafPending = {rafId})

\* an exception left a tick before the last system ran and after an earlier
\* subscriber was called, and the engine had ticked after an earlier exception
C15_Witness ==
    /\ escaped /\ everEscaped /\ ran /\ isRunning
    /\ Len(handlerLog.calls) = 2
    /\ subs["A"] = <<"h1", "bad", "h2">>
    /\ Len(systems) = 3 /\ Len(callLog) = 2

(***************************************************************************)
(* EventBus claims (checked under SpecBus)                                 *)
(***************************************************************************)
\* C13: emit(topic) calls, before it returns, every handler subscribed to the
\* topic exactly once per subscription, in subscription order, and no handler
\* of another topic.  Stated for the emits no exception leaves; violated when
\* a handler unsubscribes itself during the emit.
C13_Original ==
    [][\A t \in Topics :
          (EmitTopic(t) /\ ~handlerLog'.thrown) => handlerLog'.calls = subs[t]]_vars

\* C14: the function on() returned removes that subscription, and calling it
\* again leaves the subscriber lists as they are.  Violated when the handler
\* has another subscription to the topic.
C14_Original ==
    [][\A k \in 1..MaxOn :
          (Unsubscribe(k) /\ handles[k].used) => subs' = subs]_vars

\* how many times handler h occurs in a list of handlers
Times(list, h) == Cardinality({i \in 1..Len(list) : list[i] = h})

\* C25: when a handler unsubscribes itself or subscribes a handler while emit
\* is dispatching, every other handler subscribed to the topic when emit was
\* called is still invoked in that dispatch, once per subscription it had
\* then and no more often than it is subscribed afterwards.  Violated: the
\* handler after one that unsubscribes itself is skipped.
C25_Original ==
    [][\A t \in Topics :
          (EmitTopic(t) /\ ~handlerLog'.thrown) =>
              \A h \in Handlers :
                  HandlerKind(h) = "inert" =>
                      /\ Times(handlerLog'.calls, h) >= Times(subs[t], h)
                      /\ Times(handlerLog'.calls, h) <= Times(subs'[t], h)]_vars

(***************************************************************************)
(* SpatialGrid claims (checked under SpecGrid)                             *)
(***************************************************************************)
\* object o is stored in the cell of its present position
Current(o) == Includes(sg[Key(objPos[o][1], objPos[o][2])], o)

\* C16: for every centre and radius r >= 0, getNearby contains every object
\* that is indexed under its present position and whose Euclidean distance to
\* the centre is at most r, for positive and negative coordinates alike.
C16_NoFalseNegative ==
    lastQuery.kind = "nearby" =>
        \A o \in Objs :
            (Current(o) /\ Dist2(objPos, o, lastQuery.x, lastQuery.y)
                               <= lastQuery.r * lastQuery.r)
                => Includes(lastQuery.nearby, o)

\* a query finds an object across a cell border at negative coordinates, at
\* distance exactly r
C16_Witness ==
    /\ lastQuery.kind = "nearby"
    /\ lastQuery.x = 5 /\ lastQuery.y = -5 /\ lastQuery.r = 10
    /\ objPos["o1"] = <<-5, -5>>
    /\ Current("o1")
    /\ Includes(lastQuery.nearby, "o1")

\* object o was added once at its present position P and nothing else is known
\* to the grid about it
AddedAt(o) == Occurrences(sg, o) = 1 /\ Current(o)

\* C17: for an object added at P, moved to Q and reconciled with
\* update(o, P.x, P.y): if P and Q fall in the same cell the grid is unchanged;
\* otherwise the object is stored in Q's cell only, so getNearby at Q with
\* radius 0 returns it and getNearby at P with radius 0 does not.
C17_UpdateRoundTrip ==
    [][\A o \in Objs, q \in GridPositions :
          (lastQuery'.moved # <<>> /\ objPos'[o] = q /\ AddedAt(o)
                /\ MoveUpdate(o, q)) =>
              LET P == objPos[o] IN
              IF Key(P[1], P[2]) = Key(q[1], q[2])
                THEN sg' = sg
                ELSE /\ Occurrences(sg', o) = 1
                     /\ Includes(sg'[Key(q[1], q[2])], o)
                     /\ Includes(getNearby(sg', q[1], q[2], 0), o)
                     /\ ~Includes(getNearby(sg', P[1], P[2], 0), o)]_vars

\* the object moved from cell (-1,-1) to cell (1,0), where another object is
\* stored, and was reconciled
C17_Witness ==
    /\ lastQuery.moved = <<"o1", -5, -5>>
    /\ objPos["o1"] = <<160, 10>>
    /\ sg[<<1, 0>>] = <<"o2", "o1">>
    /\ sg[<<-1, -1>>] = <<>>

\* the object was added at (10,10), moved to (160,10) and reconciled
Scenario(o) ==
    /\ objPos[o] = <<10, 10>>
    /\ objPos'[o] = <<160, 10>>
    /\ AddedAt(o)
    /\ MoveUpdate(o, <<160, 10>>)

\* C18 as stated: with cell size 150 an object added at (10,10) lies in bucket
\* (0,0); after it moves to (160,10) and the grid is updated it lies in bucket
\* (1,0); getNearby at (160,10) with radius 10 returns it and getNearby at
\* (10,10) with radius 10 does not.
C18_Original ==
    [][\A o \in Objs :
          Scenario(o) =>
              /\ Includes(sg[<<0, 0>>], o)
              /\ Includes(sg'[<<1, 0>>], o) /\ ~Includes(sg'[<<0, 0>>], o)
              /\ Includes(getNearby(sg', 160, 10, 10), o)
              /\ ~Includes(getNearby(sg', 10, 10, 10), o)]_vars

\* C18 amended: as above up to the query at (160,10); getNearby at (10,10)
\* with radius 10 scans the cells -1..1 around (0,0) and does return the
\* object, getNearby at (10,10) with radius 0 does not.
C18_ScenarioRing ==
    [][\A o \in Objs :
          Scenario(o) =>
              /\ Includes(sg[<<0, 0>>], o)
              /\ Includes(sg'[<<1, 0>>], o) /\ ~Includes(sg'[<<0, 0>>], o)
              /\ Includes(getNearby(sg', 160, 10, 10), o)
              /\ Includes(getNearby(sg', 10, 10, 10), o)
              /\ ~Includes(getNearby(sg', 10, 10, 0), o)]_vars

\* the scenario has run: the object sits in bucket (1,0) and the query at
\* (10,10) with radius 10 returns it
C18_Witness ==
    /\ lastQuery.moved = <<"o1", 10, 10>>
    /\ objPos["o1"] = <<160, 10>>
    /\ Occurrences(sg, "o1") = 1
    /\ Includes(sg[<<1, 0>>], "o1")
    /\ Includes(getNearby(sg, 10, 10, 10), "o1")

\* C19: after any sequence of add, update and remove calls every indexed
\* object appears in exactly one cell and once in that cell.  Violated by
\* add(o); add(o).
C19_Original == \A o \in Objs : Occurrences(sg, o) <= 1

(***************************************************************************)
(* findNearest (checked under SpecNearest)                                 *)
(***************************************************************************)
\* squared distance d2 is strictly less than maxDist
Within(d2, maxDist) == maxDist = Infinity \/ d2 < maxDist * maxDist

\* C20: findNearest(x, y, candidates, maxDist) returns a candidate whose
\* distance to (x, y) is strictly less than maxDist and minimal among all
\* candidates, the first such candidate in iteration order when several are at
\* the same minimal distance, and null when no candidate is strictly closer
\* than maxDist.
C20_NearestFirst ==
    lastQuery.kind = "nearest" =>
        LET arr  == lastQuery.arr
            n    == lastQuery.nearest
            D(o) == Dist2(objPos, o, lastQuery.x, lastQuery.y)
            Hits == {i \in 1..Len(arr) : Within(D(arr[i]), lastQuery.r)}
        IN  IF Hits = {} THEN n = "null"
            ELSE /\ n \in {arr[i] : i \in Hits}
                 /\ \A i \in 1..Len(arr) : D(arr[i]) >= D(n)
                 /\ \A i \in 1..Len(arr) : D(arr[i]) = D(n) => IndexOf(arr, n) <= i

\* two candidates at the same distance under maxDist: the first one is returned
C20_Witness ==
    /\ lastQuery.kind = "nearest"
    /\ lastQuery.arr = <<"o2", "o1">>
    /\ objPos["o1"] = <<40, 10>> /\ objPos["o2"] = <<40, 10>>
    /\ lastQuery.x = 10 /\ lastQuery.y = 10 /\ lastQuery.r = 150
    /\ lastQuery.nearest = "o2"

(***************************************************************************)
(* EntityManager.add claims (checked under SpecAdd)                        *)
(***************************************************************************)
\* the step is an add call
AddStep == nextEnt' # nextEnt

\* C21: add(entity, poolKey, useGrid) appends the entity at the end of
\* exactly the named pool and leaves every other pool and the removal queue
\* unchanged, inserts it into the pool's mapped grid if and only if useGrid is
\* true and the pool has a grid, and emits exactly one ENTITY_SPAWNED
\* notification, after the entity is already in the pool.
C21_AddEffect ==
    [][(AddStep /\ lastAdd'.key \in PoolSet) =>
          LET a == lastAdd'
              c == Key(ent'[a.e].x, ent'[a.e].y)
          IN  /\ ~a.threw
              /\ pools' = [pools EXCEPT ![a.key] = Append(@, a.e)]
              /\ removeQueue' = removeQueue
              /\ grids' = IF a.useGrid /\ a.key \in GridPools
                            THEN [grids EXCEPT ![GRID_MAP(a.key)][c] = Append(@, a.e)]
                            ELSE grids
              /\ spawnedEmits' = [spawnedEmits EXCEPT ![a.e] = @ + 1]
              /\ a.seen]_vars

\* the second entity was added with useGrid to the pool whose grid has
\* another name, while the first entity is queued for removal
C21_Witness ==
    /\ lastAdd.e = 2 /\ lastAdd.key = "seaCreatures" /\ lastAdd.useGrid
    /\ pools["seaCreatures"] = <<1, 2>>
    /\ removeQueue = <<1>>
    /\ 2 \in InGrids

\* C22: add with a poolKey that is not one of the registry's pool names
\* fails with an error, leaves every pool, every grid and the removal queue
\* unchanged, and emits no notification.  Violated for the keys
\* "_removeQueue" and "allArrays".
C22_Original ==
    [][(AddStep /\ lastAdd'.key \notin PoolSet) =>
          /\ lastAdd'.threw
          /\ UNCHANGED <<pools, grids, removeQueue, spawnedEmits>>]_vars

(***************************************************************************)
(* Entity ids (checked under SpecIds)                                      *)
(***************************************************************************)
\* C23: no two entities held in the same pool have the same id.  Violated in
\* the kelp, seagrass and seaCreatures pools, which two spawners with
\* different counters feed.
C23_Original ==
    \A k \in PoolSet :
        \A i \in 1..Len(pools[k]), j \in 1..Len(pools[k]) :
            i # j => entId[pools[k][i]] # entId[pools[k][j]]

(***************************************************************************)
(* Timer callbacks (checked under SpecTimers)                              *)
(***************************************************************************)
\* C24: a timer callback whose entity was removed from the pools between
\* scheduling and firing changes no entity state and adds nothing to any
\* pool.  Violated: no callback looks at its entity before it acts.
C24_Original ==
    [][\A t \in timers :
          (timers' = timers \ {t} /\ t.e \notin InPools)
              => UNCHANGED <<pools, ent, onIsland>>]_vars

(***************************************************************************)
(* Grid currency (checked under SpecMotion)                                *)
(***************************************************************************)
\* C26: at the end of every tick, every entity indexed in a spatial grid is
\* stored in the cell of its current position.  Violated: a bird's update
\* changes its position and nothing updates the ducks grid.
C26_Original ==
    pc = "idle" =>
        \A e \in Ents, g \in GridKeys, c \in Cells :
            Includes(grids[g][c], e) => c = Key(ent[e].x, ent[e].y)

(***************************************************************************)
(* The AI step (checked under SpecTimers)                                  *)
(***************************************************************************)
\* the AI step: AISystem.update ran
AIStep == TmAI

\* C27: during the AI step an entity's _think changes only that entity's own
\* fields: no field of another entity is assigned, no addition to a pool is
\* scheduled or performed.  Violated: a predator's _think breeds.
C27_Original ==
    [][AIStep => /\ foreignWrites' = {}
                 /\ timers' = timers
                 /\ pools' = pools]_vars

(***************************************************************************)
(* Environment claims (checked under SpecPollution)                        *)
(***************************************************************************)
\* C28: the presentation and UI steps only read the registry: pools, grids,
\* removal queue, waterPollution and biodiversity are the same after them.
\* Violated: GameUI.update assigns entities.biodiversity.
C28_Original ==
    [][(pc \in {"render", "ui"})
          => UNCHANGED <<pools, grids, removeQueue, waterPollution, biodiversity>>]_vars

\* the entities of the algae, seagrass and kelp pools
AlgaeEntities ==
    {e \in Ents : \E k \in {"algae", "seagrass", "kelp"} : Includes(pools[k], e)}

\* C30: waterPollution is within [0, 100] in every reachable state, and when
\* the pollution step has returned every entity of the algae, seagrass and
\* kelp pools whose lifetime is 0 or less is in the removal queue.
C30_PollutionRange ==
    /\ waterPollution >= 0
    /\ waterPollution <= 100 * PollutionScale
    /\ pc = "entityUpdate" =>
          \A e \in AlgaeEntities : lifetime[e] <= 0 => Includes(removeQueue, e)

\* the pollution step has returned; two toxic algae contributed 75 points
\* each in it (dt = 150) and ran out of lifetime; both are queued and
\* waterPollution is 100
C30_Witness ==
    /\ pc = "entityUpdate"
    /\ waterPollution = 100 * PollutionScale
    /\ \E a \in AlgaeEntities, b \in AlgaeEntities :
          /\ a # b
          /\ ent[a].sp = "algae_toxic" /\ ent[b].sp = "algae_toxic"
          /\ lifetime[a] = 45 - 150 /\ lifetime[b] = 45 - 150
          /\ Includes(removeQueue, a) /\ Includes(removeQueue, b)

(***************************************************************************)
(* Visiting order (checked under Spec)                                     *)
(***************************************************************************)
\* C29: within every pipeline step the entities of a pool are visited in
\* pool order.  Violated: the per-entity update step walks every pool from
\* its last entry to its first.
C29_Original ==
    (pc = "entityUpdate" /\ ~isPaused)
        => Flatten(pools, 1, TRUE) = Flatten(pools, 1, FALSE)

(***************************************************************************)
(* The natural algae spawner on its own (main.js, system 7)                *)
(***************************************************************************)
\* CONFIG.ALGAE_SPAWN_INTERVAL, in seconds and in time units
ALGAE_SPAWN_INTERVAL == 8

AlgaeInterval == ALGAE_SPAWN_INTERVAL * UnitsPerSecond

\* the dt values of the ticks: one frame, and the two largest values the
\* engine's clamp lets through
AlgaeDts == {targetFrameMs, ClampDt(UnitsPerSecond) - 1, ClampDt(UnitsPerSecond)}

\* update(dt) of the spawner: paused it returns at once; otherwise the timer
\* grows by dt and, having reached the interval, is set to 0 before addAlgae
AlgaeSystemUpdate ==
    \E d \in AlgaeDts :
        /\ pc = "idle"
        /\ simTime + d <= MaxSimTime
        /\ IF isPaused
             THEN UNCHANGED <<regVars, algaeVars>>
             ELSE /\ simTime' = simTime + d
                  /\ IF algaeTimer + d >= AlgaeInterval
                       THEN /\ Budget
                            /\ algaeTimer' = 0
                            /\ algaeFired' = algaeFired + 1
                            /\ Spawned(addAlgae(Game, nextEnt))
                       ELSE /\ algaeTimer' = algaeTimer + d
                            /\ UNCHANGED <<regVars, algaeFired>>
        /\ UNCHANGED <<engVars, obsVars, worldVars, loopVars, busVars, gridVars,
                       lastAdd, ids, entId, seagrassTimers, timers, onIsland,
                       hatching, canBreed, foreignWrites, waterPollution,
                       biodiversity, lifetime, thinkVars, reproVars, huntVars,
                       layVars, ducksFrom, tickVars, genomeVars, entLimit, pc>>

AlgaeNext == AlgaeSystemUpdate \/ UiTogglePause

SpecAlgae == GameInit /\ [][AlgaeNext]_vars

(***************************************************************************)
(* Algae spawner claim (checked under SpecAlgae)                           *)
(***************************************************************************)
\* C31: after a total unpaused simulated time S the spawner has fired exactly
\* floor(S / ALGAE_SPAWN_INTERVAL) times, whatever the dt values were.
\* Violated: a firing sets the timer to 0 and drops what it had beyond the
\* interval.
C31_Original == algaeFired = simTime \div AlgaeInterval

(***************************************************************************)
(* Simulated time against wall-clock time (checked under SpecEngine)       *)
(***************************************************************************)
\* C32: the dt values of consecutive executed ticks after the first one sum
\* to at most the wall-clock time between the first and the last of those
\* callbacks; for two consecutive executed ticks: the dt of the second is at
\* most the time between the two callbacks.
\* Violated: _lastTime is set back by elapsed % targetFrameMs, and the next
\* tick's dt counts that remainder a second time.
C32_Original ==
    (ran /\ Len(tickLog) >= 2)
        => dt <= tickLog[Len(tickLog)] - tickLog[Len(tickLog) - 1]

(***************************************************************************)
(* SpecThink: when the decision logic of birds and predators runs          *)
(***************************************************************************)
\* bound on the time that passes under SpecThink, in units of 1000 ms
MaxClock == 6

\* CONFIG.THINK_COOLDOWN after the isMobile block of engine/Core.js
ConfigCooldown == IF isMobile THEN THINK_COOLDOWN_MOBILE ELSE THINK_COOLDOWN

\* config?.THINK_COOLDOWN ?? 3000: main.js constructs the AISystem without a
\* config, the per-entity update system passes CONFIG
CooldownOf(hasConfig) == IF hasConfig THEN ConfigCooldown ELSE THINK_COOLDOWN

\* the decision logic of e runs now.  T = [last, log]
Decide(T, e) ==
    [T EXCEPT !.log[e] = IF Len(@) = 2 THEN <<@[2], clock>> ELSE Append(@, clock)]

\* BirdEntity._think(entities, bus, config): returns before the decision
\* logic when less than the cooldown has passed since lastDecisionTime
BirdThink(T, e, hasConfig) ==
    IF clock - T.last[e] < CooldownOf(hasConfig) THEN T
    ELSE Decide([T EXCEPT !.last[e] = clock], e)

\* MammalEntity._think(entities, bus): the decision logic, with no test of
\* its own
MammalThink(T, e) == Decide(T, e)

\* MammalEntity.update: _think after more than the cooldown since
\* lastThinkTime
MammalUpdateThink(T, e) ==
    IF clock - T.last[e] > ConfigCooldown
      THEN MammalThink([T EXCEPT !.last[e] = clock], e)
      ELSE T

\* f applied for the entities of the array arr from index i on
RECURSIVE ForEachThink(_, _, _, _)
ForEachThink(T, arr, i, kind) ==
    IF i > Len(arr) THEN T
    ELSE ForEachThink(
             CASE kind = "aiBird"      -> BirdThink(T, arr[i], FALSE)
               [] kind = "aiMammal"    -> MammalThink(T, arr[i])
               [] kind = "birdUpdate"  -> BirdThink(T, arr[i], TRUE)
               [] OTHER                -> MammalUpdateThink(T, arr[i]),
             arr, i + 1, kind)

ThinkState == [last |-> lastThink, log |-> decisions]

SetThink(T) == lastThink' = T.last /\ decisions' = T.log

ThinkIdle ==
    UNCHANGED <<engVars, regVars, obsVars, loopVars, busVars, gridVars, lastAdd,
                ids, entId, seagrassTimers, timers, onIsland, hatching, canBreed,
                foreignWrites, waterPollution, biodiversity, lifetime, algaeVars,
                reproVars, huntVars, layVars, ducksFrom, tickVars, genomeVars,
                isMobile, entLimit>>

\* Date.now() moves on
ThinkClock ==
    /\ clock < ClockStart + MaxClock
    /\ clock' = clock + 1
    /\ UNCHANGED <<lastThink, decisions, isPaused, pc>>
    /\ ThinkIdle

\* AISystem.update(dt): e._think(this.entities, this.bus, this.config) for
\* every duck and predator
ThinkAISystem ==
    /\ pc = "ai"
    /\ pc' = "entityUpdate"
    /\ IF isPaused THEN UNCHANGED <<lastThink, decisions>>
       ELSE SetThink(ForEachThink(ForEachThink(ThinkState, pools["ducks"], 1, "aiBird"),
                                  pools["predators"], 1, "aiMammal"))
    /\ UNCHANGED <<clock, isPaused>>
    /\ ThinkIdle

\* the per-entity update system: update(dt, world, entities, bus, CONFIG) of
\* the ducks and the predators, as far as it reaches _think
ThinkEntityUpdate ==
    /\ pc = "entityUpdate"
    /\ pc' = "ai"
    /\ IF isPaused THEN UNCHANGED <<lastThink, decisions>>
       ELSE SetThink(ForEachThink(ForEachThink(ThinkState, pools["ducks"], 1, "birdUpdate"),
                                  pools["predators"], 1, "mammalUpdate"))
    /\ UNCHANGED <<clock, isPaused>>
    /\ ThinkIdle

\* Spawners.addIsland, addBird and addPredator between two ticks
ThinkSpawn ==
    \E c \in {[sp |-> "island", pool |-> "islands", grid |-> FALSE],
              [sp |-> "duck_mallard", pool |-> "ducks", grid |-> TRUE],
              [sp |-> "cat", pool |-> "predators", grid |-> FALSE]} :
        /\ pc = "ai" /\ Budget
        /\ c.pool = "predators" => Len(pools["islands"]) > 0
        /\ canSpawn(pools, ent, c.sp)
        /\ LET E1 == [ent EXCEPT ![nextEnt] = NewEntity(c.sp, SpawnPos)]
           IN  /\ ent' = E1
               /\ nextEnt' = nextEnt + 1
               /\ SetRegistry(Add(Registry, E1, nextEnt, c.pool, c.grid))
        /\ UNCHANGED <<engVars, obsVars, worldVars, auxVars, entLimit, pc>>

ThinkTogglePause ==
    /\ pc = "ai"
    /\ isPaused' = ~isPaused
    /\ UNCHANGED <<clock, lastThink, decisions, pc>>
    /\ ThinkIdle

ThinkInit ==
    /\ RegInit /\ EngineInit0 /\ AuxInitOn(BOOLEAN)
    /\ isPaused = FALSE /\ entLimit = MaxEnt /\ pc = "ai"

ThinkNext ==
    \/ ThinkSpawn \/ ThinkTogglePause \/ ThinkClock
    \/ ThinkAISystem \/ ThinkEntityUpdate

SpecThink == ThinkInit /\ [][ThinkNext]_vars

(***************************************************************************)
(* Decision throttle claim (checked under SpecThink)                       *)
(***************************************************************************)
\* C33: for every bird and every predator two consecutive runs of its
\* decision logic are at least CONFIG.THINK_COOLDOWN apart, on a desktop
\* (3000 ms) and on a mobile browser (5000 ms).
\* Violated: AISystem.update calls a predator's _think, which has no test of
\* its own, in every tick; and the AISystem has no config, so that a bird
\* decides after 3000 ms on a mobile browser.
C33_Original ==
    \A e \in Ents :
        Len(decisions[e]) = 2 => decisions[e][2] - decisions[e][1] >= ConfigCooldown

(***************************************************************************)
(* SpecRepro: the reproduction step and the cooldowns.  Hunger and the     *)
(* cooldown change linearly with dt (apart from the clamp at 0), so the    *)
(* model takes ticks of ReproDt seconds instead of the engine's 0.1 s at   *)
(* most.  The food pool is empty here, so that the shrimp loop of the      *)
(* step has nothing to visit.                                              *)
(***************************************************************************)
\* bound on the entities constructed under SpecRepro
MaxReproEnt == 3

\* the dt of a tick, in seconds
ReproDt == 10

\* a.reproductionCooldown = b.reproductionCooldown = 40
MarineCooldown == 40

\* new FishEntity: hunger = 50 + random * 50, reproductionCooldown = 20 + random * 20
FishHungers == {95}
FishCooldowns == {20}

\* new MammalEntity: hunger = 50 + random * 30, reproductionCooldown = 30 + random * 20
MammalHungers == {75}
MammalCooldowns == {30}

\* !v of JavaScript for a number v, as the name of the boolean
JsNot(v) == IF v = 0 THEN "true" ELSE "false"

\* the test without the negation: a.reproductionCooldown === undefined, which
\* no entity of the pools meets
SkipsFish_NoNegation(cooldown) == FALSE

\* if (!a.reproductionCooldown !== undefined) continue
SkipsFish(cooldown) == JsNot(cooldown) # "undefined"

\* the pool spawnFish adds a FishEntity of the species to
FishPoolOf(sp) ==
    IF sp = "octopus" THEN "octopi"
    ELSE IF sp \in {"fish_salmon", "fish_tropical", "fish_puffer", "fish_shark"}
           THEN "fish"
           ELSE "seaCreatures"

\* the state a reproduction step works on
ReproState ==
    [R |-> Registry, E |-> ent, H |-> hunger, C |-> reproCooldown, n |-> nextEnt,
     paired |-> {}, bred |-> {}, over |-> FALSE]

\* for (const b of pool): the first b that is not a, has a's species, has no
\* cooldown left and is closer to a than range
RECURSIVE FindPartner(_, _, _, _, _)
FindPartner(S, pool, a, j, range) ==
    IF j > Len(pool) THEN 0
    ELSE LET b == pool[j]
         IN  IF /\ b # a
                /\ S.E[b].sp = S.E[a].sp
                /\ ~(S.C[b] > 0)
                /\ (S.E[b].x - S.E[a].x) * (S.E[b].x - S.E[a].x)
                     + (S.E[b].y - S.E[a].y) * (S.E[b].y - S.E[a].y) < range * range
               THEN b
               ELSE FindPartner(S, pool, a, j + 1, range)

\* _spawnFishOffspring(a, b) and _spawnMarineOffspring(a, b): both cooldowns,
\* then the offspring when canSpawn allows it; init = [h, c] are the hunger
\* and the cooldown its constructor draws
SpawnOffspring(S, a, b, poolKey, init) ==
    LET S1 == [S EXCEPT !.C[a] = MarineCooldown, !.C[b] = MarineCooldown,
                        !.paired = @ \cup {a, b}]
    IN  IF ~canSpawn(S.R.pools, S.E, S.E[a].sp) THEN S1
        ELSE IF S.n \notin Ents THEN [S1 EXCEPT !.over = TRUE]
        ELSE LET E1 == [S.E EXCEPT ![S.n] = NewEntity(S.E[a].sp, <<S.E[a].x, S.E[a].y>>)]
             IN  [S1 EXCEPT !.E = E1,
                            !.R = Add(S.R, E1, S.n, poolKey, TRUE),
                            !.H[S.n] = init.h, !.C[S.n] = init.c,
                            !.n = @ + 1,
                            !.bred = @ \cup {a, b}]

\* _processFishReproduction(dt) from the i-th entry of its pool on; pool is
\* the copy [...fish, ...seaCreatures, ...octopi], L the entities whose
\* Math.random() draw is at most 0.01
RECURSIVE ProcessFish(_, _, _, _, _)
ProcessFish(S, pool, i, L, init) ==
    IF i > Len(pool) THEN S
    ELSE LET a  == pool[i]
             S1 == [S EXCEPT !.C[a] = Max(0, @ - ReproDt)]
             b  == FindPartner(S1, pool, a, 1, 80)
         IN  IF SkipsFish(S.C[a]) THEN ProcessFish(S, pool, i + 1, L, init)
             ELSE IF S1.H[a] < 70 \/ S1.C[a] > 0 \/ a \notin L \/ b = 0
               THEN ProcessFish(S1, pool, i + 1, L, init)
               ELSE ProcessFish(SpawnOffspring(S1, a, b, FishPoolOf(S1.E[a].sp), init),
                                pool, i + 1, L, init)

\* _processMammalReproduction(dt) from the i-th entry of entities.seaCreatures
\* on; the array grows while the loop runs
RECURSIVE ProcessMammals(_, _, _)
ProcessMammals(S, i, init) ==
    LET pool == S.R.pools["seaCreatures"] IN
    IF i > Len(pool) THEN S
    ELSE LET a  == pool[i]
             S1 == [S EXCEPT !.C[a] = Max(0, @ - ReproDt)]
             b  == FindPartner(S1, pool, a, 1, 80)
         IN  IF S.E[a].sp \in {"none", "cat", "dog"} THEN ProcessMammals(S, i + 1, init)
             ELSE IF S1.H[a] < 70 \/ S1.C[a] > 0 \/ b = 0
               THEN ProcessMammals(S1, i + 1, init)
               ELSE ProcessMammals(SpawnOffspring(S1, a, b, "seaCreatures", init),
                                   i + 1, init)

ReproIdle ==
    UNCHANGED <<engVars, obsVars, loopVars, busVars, gridVars, lastAdd, ids, entId,
                seagrassTimers, timers, onIsland, hatching, canBreed,
                foreignWrites, waterPollution, biodiversity, lifetime, algaeVars,
                thinkVars, huntVars, layVars, ducksFrom, tickVars, genomeVars,
                entLimit>>

\* Spawners.addFish(speciesDef): spawnFish at a random place of the ocean
ReproAddFish ==
    \E sp \in {"fish_tropical", "fish_squid"}, pos \in Positions,
       h \in FishHungers, c \in FishCooldowns :
        /\ pc = "reproduction" /\ Budget
        /\ canSpawn(pools, ent, sp)
        /\ LET E1 == [ent EXCEPT ![nextEnt] = NewEntity(sp, pos)]
           IN  /\ ent' = E1
               /\ SetRegistry(Add(Registry, E1, nextEnt, FishPoolOf(sp), TRUE))
        /\ hunger' = [hunger EXCEPT ![nextEnt] = h]
        /\ reproCooldown' = [reproCooldown EXCEPT ![nextEnt] = c]
        /\ nextEnt' = nextEnt + 1
        /\ UNCHANGED <<lucky, sinceBred, lastGap, isPaused, pc>>
        /\ ReproIdle

ReproTogglePause ==
    /\ pc = "reproduction"
    /\ isPaused' = ~isPaused
    /\ UNCHANGED <<regVars, reproVars, pc>>
    /\ ReproIdle

\* ReproductionSystem.update(dt)
ReproStep ==
    \E L \in {{}} \cup {{e} : e \in {x \in Ents : Includes(pools["fish"], x)}},
       hf \in FishHungers, cf \in FishCooldowns,
       hm \in MammalHungers, cm \in MammalCooldowns :
        /\ pc = "reproduction"
        /\ pc' = "entityUpdate"
        /\ IF isPaused THEN UNCHANGED <<regVars, reproVars>>
           ELSE LET S1 == ProcessFish(ReproState,
                              pools["fish"] \o pools["seaCreatures"] \o pools["octopi"],
                              1, L, [h |-> hf, c |-> cf])
                    S2 == ProcessMammals(S1, 1, [h |-> hm, c |-> cm])
                    T  == [e \in Ents |-> IF sinceBred[e] < 0 THEN -1
                                          ELSE Min(MarineCooldown, sinceBred[e] + ReproDt)]
                IN  /\ ~S2.over
                    /\ SetGame([R |-> S2.R, E |-> S2.E])
                    /\ nextEnt' = S2.n
                    /\ hunger' = S2.H
                    /\ reproCooldown' = S2.C
                    /\ lucky' = L
                    /\ sinceBred' = [e \in Ents |-> IF e \in S2.bred THEN 0 ELSE T[e]]
                    /\ lastGap' = [e \in Ents |-> IF e \in S2.paired /\ T[e] >= 0
                                                    THEN T[e] ELSE lastGap[e]]
        /\ UNCHANGED <<lastFlush, dupReq, isPaused>>
        /\ ReproIdle

\* the per-entity update system, as far as FishEntity.update and
\* MammalEntity.update change hunger and reproductionCooldown (no entity
\* reaches its maxAge)
ReproEntityUpdate ==
    /\ pc = "entityUpdate"
    /\ pc' = "reproduction"
    /\ IF isPaused THEN UNCHANGED <<hunger, reproCooldown>>
       ELSE LET swims(e) == Includes(pools["fish"], e) \/ Includes(pools["seaCreatures"], e)
            IN  /\ hunger' = [e \in Ents |-> IF swims(e)
                                               THEN Max(0, hunger[e] - ReproDt \div 2)
                                               ELSE hunger[e]]
                /\ reproCooldown' = [e \in Ents |-> IF swims(e)
                                                      THEN Max(0, reproCooldown[e] - ReproDt)
                                                      ELSE reproCooldown[e]]
    /\ UNCHANGED <<regVars, lucky, sinceBred, lastGap, isPaused>>
    /\ ReproIdle

ReproInit ==
    /\ RegInit /\ EngineInit0 /\ AuxInit
    /\ isPaused = FALSE /\ entLimit = MaxReproEnt /\ pc = "reproduction"

ReproNext == ReproAddFish \/ ReproTogglePause \/ ReproStep \/ ReproEntityUpdate

SpecRepro == ReproInit /\ [][ReproNext]_vars

(***************************************************************************)
(* Reproduction claims (checked under SpecRepro)                           *)
(***************************************************************************)
\* a is a fish that meets the conditions of the fish loop: hunger at least
\* 70, no cooldown left, a partner of its species without cooldown within 80,
\* and its species below its cap
FishReady(a) ==
    /\ Includes(pools["fish"], a)
    /\ hunger[a] >= 70
    /\ reproCooldown[a] = 0
    /\ FindPartner(ReproState, pools["fish"], a, 1, 80) # 0
    /\ canSpawn(pools, ent, ent[a].sp)

\* C34: in the reproduction step a fish with hunger at least 70, cooldown 0
\* and a partner of its species with cooldown 0 within 80 can have offspring
\* through spawnFish when its species is below its cap (its draw of
\* Math.random() permitting), and its cooldown is 40 afterwards.
\* Violated: the first test of the fish loop skips every entity.
C34_Original ==
    [][(pc = "reproduction" /\ pc' = "entityUpdate" /\ ~isPaused
          /\ \E a \in lucky' : FishReady(a))
          => \E a \in lucky' :
                /\ FishReady(a)
                /\ reproCooldown'[a] = MarineCooldown
                /\ Len(pools'["fish"]) > Len(pools["fish"])]_vars

\* C35: after a pair had offspring neither parent pairs again before the
\* full cooldown (40 s) of unpaused simulated time has passed.
\* Violated: the reproduction step and the entity's own update both take dt
\* off the cooldown in every tick, so that it is over after 20 s.
C35_Original == \A e \in Ents : lastGap[e] >= 0 => lastGap[e] >= MarineCooldown

(***************************************************************************)
(* SpecHunt: predators hunting ducks, during the first 90 s of a predator  *)
(* (its breedingCooldown has not run out, so that _think does not breed).  *)
(* Ducks stay where they are; a predator reaches its target in one update. *)
(***************************************************************************)
\* bound on the entities constructed under SpecHunt
MaxHuntEnt == 4

\* what one update takes off a predator's hunger: dt * 1.2
HuntDrop == 12

\* new MammalEntity: hunger = 50 + random * 30
PredatorHungers == {50}

\* the position of every entity object
PosOf(E) == [e \in Ents |-> <<E[e].x, E[e].y>>]

\* the state the predators work on
HuntState ==
    [R |-> Registry, E |-> ent, H |-> hunger, T |-> huntTarget, K |-> ducksEaten,
     emits |-> eatenEmits, stale |-> staleCatch]

\* the hunting part of MammalEntity._think of predator p
HuntThink(S, p) ==
    LET ducks == S.R.pools["ducks"]
        duck  == findNearest(PosOf(S.E), S.E[p].x, S.E[p].y, ducks, 300)
        found == \E i \in 1..Len(ducks) :
                    Dist2(PosOf(S.E), ducks[i], S.E[p].x, S.E[p].y) < 300 * 300
    IN  IF S.H[p] < 40 /\ S.T[p] = 0 /\ found
          THEN [S EXCEPT !.T[p] = duck]
          ELSE S

\* mutant: _catchDuck leaves a duck alone that is queued for removal or has
\* left the ducks pool
CatchDuck_Guarded(S, p, duck) ==
    IF Includes(S.R.queue, duck) \/ ~Includes(S.R.pools["ducks"], duck)
      THEN [S EXCEPT !.T[p] = 0]
      ELSE [S EXCEPT !.H[p] = Min(100, @ + 60),
                     !.K[p] = @ + 1,
                     !.emits[duck] = @ + 1,
                     !.R = QueueRemove(S.R, duck),
                     !.T[p] = 0]

\* MammalEntity._catchDuck(duck, entities, bus)
CatchDuck(S, p, duck) ==
    [S EXCEPT !.H[p] = Min(100, @ + 60),
              !.K[p] = @ + 1,
              !.emits[duck] = @ + 1,
              !.stale = @ \/ Includes(S.R.queue, duck)
                          \/ ~Includes(S.R.pools["ducks"], duck),
              !.R = QueueRemove(S.R, duck),
              !.T[p] = 0]

\* MammalEntity._executePredatorBehaviour of p: catch the target within 30,
\* move towards it otherwise
ExecutePredator(S, p) ==
    LET d == S.T[p] IN
    IF d = 0 THEN S
    ELSE IF Dist2(PosOf(S.E), d, S.E[p].x, S.E[p].y) < 30 * 30
      THEN CatchDuck(S, p, d)
      ELSE [S EXCEPT !.E[p].x = S.E[d].x, !.E[p].y = S.E[d].y]

\* MammalEntity.update of predator p; thinks says whether more than
\* THINK_COOLDOWN has passed since lastThinkTime
PredatorUpdate(S, p, thinks) ==
    LET S1 == [S EXCEPT !.H[p] = Max(0, @ - HuntDrop)]
        S2 == IF thinks THEN HuntThink(S1, p) ELSE S1
    IN  ExecutePredator(S2, p)

\* AISystem.update: _think of the predators from the i-th on
RECURSIVE HuntThinkAll(_, _)
HuntThinkAll(S, i) ==
    IF i > Len(S.R.pools["predators"]) THEN S
    ELSE HuntThinkAll(HuntThink(S, S.R.pools["predators"][i]), i + 1)

\* the per-entity update system on the predators pool, from index i down
RECURSIVE HuntUpdateAll(_, _, _)
HuntUpdateAll(S, i, thinks) ==
    IF i < 1 THEN S
    ELSE HuntUpdateAll(PredatorUpdate(S, S.R.pools["predators"][i], thinks),
                       i - 1, thinks)

SetHunt(S) ==
    /\ SetGame([R |-> S.R, E |-> S.E])
    /\ hunger' = S.H
    /\ huntTarget' = S.T
    /\ ducksEaten' = S.K
    /\ eatenEmits' = S.emits
    /\ staleCatch' = S.stale

HuntIdle ==
    UNCHANGED <<engVars, obsVars, loopVars, busVars, gridVars, lastAdd, ids, entId,
                seagrassTimers, timers, onIsland, hatching, canBreed,
                foreignWrites, waterPollution, biodiversity, lifetime, algaeVars,
                thinkVars, reproCooldown, lucky, sinceBred, lastGap, layVars,
                ducksFrom, tickVars, genomeVars, entLimit>>

\* Spawners.addIsland, addBird and addPredator between two ticks
HuntSpawn ==
    \E c \in {[sp |-> "island", pool |-> "islands", grid |-> FALSE],
              [sp |-> "duck_mallard", pool |-> "ducks", grid |-> TRUE],
              [sp |-> "cat", pool |-> "predators", grid |-> FALSE]},
       pos \in Positions, h \in PredatorHungers :
        /\ pc = "idle" /\ Budget
        /\ c.pool = "predators" => Len(pools["islands"]) > 0
        /\ c.pool # "ducks" => pos = SpawnPos
        /\ canSpawn(pools, ent, c.sp)
        /\ LET E1 == [ent EXCEPT ![nextEnt] = NewEntity(c.sp, pos)]
           IN  /\ ent' = E1
               /\ SetRegistry(Add(Registry, E1, nextEnt, c.pool, c.grid))
        /\ hunger' = [hunger EXCEPT ![nextEnt] = IF c.pool = "predators" THEN h ELSE @]
        /\ nextEnt' = nextEnt + 1
        /\ UNCHANGED <<huntVars, isPaused, pc>>
        /\ HuntIdle

HuntTogglePause ==
    /\ pc = "idle"
    /\ isPaused' = ~isPaused
    /\ UNCHANGED <<regVars, hunger, huntVars, pc>>
    /\ HuntIdle

\* 1. entities.flushRemovals()
HuntFlush ==
    /\ pc = "idle"
    /\ pc' = "ai"
    /\ SetRegistry(FlushRemovals(Registry, ent))
    /\ UNCHANGED <<ent, nextEnt, hunger, huntVars, isPaused>>
    /\ HuntIdle

\* 2. AISystem.update
HuntAI ==
    /\ pc = "ai"
    /\ pc' = "entityUpdate"
    /\ IF isPaused THEN UNCHANGED <<regVars, hunger, huntVars>>
       ELSE SetHunt(HuntThinkAll(HuntState, 1)) /\ UNCHANGED nextEnt
    /\ UNCHANGED isPaused
    /\ HuntIdle

\* 6. the per-entity update system
HuntEntityUpdate ==
    \E thinks \in BOOLEAN :
        /\ pc = "entityUpdate"
        /\ pc' = "idle"
        /\ IF isPaused THEN UNCHANGED <<regVars, hunger, huntVars>>
           ELSE /\ SetHunt(HuntUpdateAll(HuntState, Len(pools["predators"]), thinks))
                /\ UNCHANGED nextEnt
        /\ UNCHANGED isPaused
        /\ HuntIdle

HuntInit ==
    /\ RegInit /\ EngineInit0 /\ AuxInit
    /\ isPaused = FALSE /\ entLimit = MaxHuntEnt /\ pc = "idle"

HuntNext == HuntSpawn \/ HuntTogglePause \/ HuntFlush \/ HuntAI \/ HuntEntityUpdate

SpecHunt == HuntInit /\ [][HuntNext]_vars

(***************************************************************************)
(* Hunting claim (checked under SpecHunt)                                  *)
(***************************************************************************)
\* C36: a duck is caught at most once: DUCK_EATEN is emitted and ducksEaten
\* incremented at most once for it, and never for a duck that is in the
\* removal queue already or no longer in the ducks pool.
\* Violated: two predators that hunt the same duck both catch it.
C36_Original ==
    /\ \A d \in Ents : eatenEmits[d] <= 1
    /\ ~staleCatch

(***************************************************************************)
(* SpecLay: a bird that has decided to lay eggs on an island.  Birds and   *)
(* islands are constructed at the same place, so that _moveToTarget has    *)
(* the bird within 60 of its target at once.                               *)
(***************************************************************************)
\* bound on the _layEggsOnIsland calls of a bird between two assignments of
\* its state
MaxLay == 2

LayIdle ==
    UNCHANGED <<engVars, obsVars, worldVars, loopVars, busVars, gridVars, lastAdd,
                seagrassTimers, hatching, canBreed, foreignWrites, waterPollution,
                biodiversity, lifetime, algaeVars, thinkVars, reproVars,
                ducksEaten, eatenEmits, staleCatch, ducksFrom, tickVars,
                genomeVars, entLimit, pc>>

\* BirdEntity._think, priority 1: the bird is not on an island and its stats
\* allow it; target = {type: 'island', obj: island}, state = 'seeking-island'
LayDecide ==
    \E e \in Ents :
        /\ pc = "timers"
        /\ Includes(pools["ducks"], e) /\ ~ent[e].dead
        /\ Len(pools["islands"]) > 0
        /\ e \notin onIsland
        /\ huntTarget' = [huntTarget EXCEPT ![e] =
              findNearest(PosOf(ent), ent[e].x, ent[e].y, pools["islands"], Infinity)]
        /\ birdState' = [birdState EXCEPT ![e] = "seeking-island"]
        /\ layCount' = [layCount EXCEPT ![e] = 0]
        /\ UNCHANGED <<regVars, ids, entId, timers, onIsland, hunger, reproCooldown,
                       lucky, sinceBred, lastGap>>
        /\ LayIdle

\* BirdEntity._think, a later priority: another state and target
LayDecideOther ==
    \E e \in Ents :
        /\ pc = "timers"
        /\ Includes(pools["ducks"], e) /\ ~ent[e].dead
        /\ birdState[e] = "seeking-island"
        /\ huntTarget' = [huntTarget EXCEPT ![e] = 0]
        /\ birdState' = [birdState EXCEPT ![e] = "exploring"]
        /\ layCount' = [layCount EXCEPT ![e] = 0]
        /\ UNCHANGED <<regVars, ids, entId, timers, onIsland, hunger, reproCooldown,
                       lucky, sinceBred, lastGap>>
        /\ LayIdle

\* _layEggsOnIsland(island, bus) of bird e with numEggs = n: onIsland = true,
\* one timer per egg and the timer that resets onIsland, state and target.
\* B = [on, tm, lays]
LayEggsOnIsland(B, e, n) ==
    [on   |-> B.on \cup {e},
     tm   |-> B.tm \cup {[fn |-> "createEgg", e |-> e, i |-> 2 * B.lays[e] + k] : k \in 1..n}
                   \cup {[fn |-> "idle", e |-> e, i |-> B.lays[e]]},
     lays |-> [B.lays EXCEPT ![e] = @ + 1]]

\* _executeBehaviour of bird e, case 'seeking-island': _moveToTarget, and
\* within 60 of the target _layEggsOnIsland
SeekIsland(B, e, n) ==
    IF /\ birdState[e] = "seeking-island"
       /\ huntTarget[e] # 0
       /\ Dist2(PosOf(ent), huntTarget[e], ent[e].x, ent[e].y) < 60 * 60
      THEN LayEggsOnIsland(B, e, n)
      ELSE B

\* update of the birds of the ducks pool from index i down
RECURSIVE LayUpdateAll(_, _, _)
LayUpdateAll(B, i, n) ==
    IF i < 1 THEN B
    ELSE LayUpdateAll(IF ent[pools["ducks"][i]].dead THEN B
                      ELSE SeekIsland(B, pools["ducks"][i], n),
                      i - 1, n)

\* the per-entity update system, as far as it reaches _executeBehaviour of
\* the birds
LayEntityUpdate ==
    \E n \in EggCounts :
        LET B == LayUpdateAll([on |-> onIsland, tm |-> timers, lays |-> layCount],
                              Len(pools["ducks"]), n)
        IN  /\ pc = "timers"
            /\ \A e \in Ents : B.lays[e] <= MaxLay
            /\ onIsland' = B.on
            /\ timers' = B.tm
            /\ layCount' = B.lays
            /\ UNCHANGED <<regVars, ids, entId, huntTarget, birdState, hunger,
                           reproCooldown, lucky, sinceBred, lastGap>>
            /\ LayIdle

\* a pending timer of _layEggsOnIsland fires
LayFire ==
    \E t \in timers :
        /\ pc = "timers"
        /\ timers' = timers \ {t}
        /\ IF t.fn = "idle"
             THEN /\ onIsland' = onIsland \ {t.e}
                  /\ birdState' = [birdState EXCEPT ![t.e] = "idle"]
                  /\ huntTarget' = [huntTarget EXCEPT ![t.e] = 0]
                  /\ layCount' = [layCount EXCEPT ![t.e] = 0]
                  /\ UNCHANGED <<regVars, ids, entId>>
             ELSE /\ Budget
                  /\ SpawnThenQueue("egg", "eggs", "nextEggId", FALSE, 0)
                  /\ UNCHANGED <<onIsland, birdState, huntTarget, layCount>>
        /\ UNCHANGED <<hunger, reproCooldown, lucky, sinceBred, lastGap>>
        /\ LayIdle

LayInit ==
    /\ RegInit /\ EngineInit0 /\ AuxInit
    /\ isPaused = FALSE /\ entLimit = MaxEnt /\ pc = "timers"

LayNext ==
    \/ TmAddIsland \/ TmSeagrassTimer \/ TmSpawn
    \/ LayDecide \/ LayDecideOther \/ LayEntityUpdate \/ LayFire

SpecLay == LayInit /\ [][LayNext]_vars

(***************************************************************************)
(* Egg-laying claim (checked under SpecLay)                                *)
(***************************************************************************)
\* C37: between the decision that set a bird's state to 'seeking-island' and
\* the next assignment of its state, _layEggsOnIsland runs at most once for
\* the bird.
\* Violated: _layEggsOnIsland leaves state and target as they are (its timer
\* resets them 3000 ms later), so that every update until then calls it again.
C37_Original == \A e \in Ents : layCount[e] <= 1

(***************************************************************************)
(* SpecHatch: eggs, their hatch() calls and the 800 ms callback.  An       *)
(* entity is constructed only while every egg that can still turn into a   *)
(* duck has an entity object left for that duck.                           *)
(***************************************************************************)
\* the eggs of the eggs pool whose callback has not queued them yet
Unhatched(P, Q) == {e \in Ents : Includes(P["eggs"], e) /\ ~Includes(Q, e)}

\* the entity objects in use and the ones the eggs may still need fit the bound
Reserved(n, P, E, Q) ==
    n - 1 + Min(Cardinality(Unhatched(P, Q)),
                MAX_COUNT("duck_mallard") - countSpecies(P, E, "duck_mallard"))
        <= entLimit

\* the hatch timers an egg has pending
HatchTimersOf(tm, e) == {t \in tm : t.fn = "hatch" /\ t.e = e}

\* mutant: hatch() without its _hatching test
Hatch_NoGuard(H, e) ==
    [hatching |-> H.hatching \cup {e},
     timers   |-> H.timers \cup {[fn |-> "hatch", e |-> e,
                                  i |-> Cardinality(HatchTimersOf(H.timers, e))]}]

\* Egg.hatch() of egg e.  H = [hatching, timers]
Hatch(H, e) ==
    IF e \in H.hatching THEN H
    ELSE [hatching |-> H.hatching \cup {e},
          timers   |-> H.timers \cup {[fn |-> "hatch", e |-> e,
                                       i |-> Cardinality(HatchTimersOf(H.timers, e))]}]

HatchIdle ==
    UNCHANGED <<engVars, obsVars, worldVars, loopVars, busVars, gridVars, lastAdd,
                seagrassTimers, onIsland, canBreed, foreignWrites, waterPollution,
                biodiversity, lifetime, algaeVars, thinkVars, reproVars, huntVars,
                layVars, tickVars, genomeVars, entLimit, pc>>

\* Spawners.createEgg(x, y, parentColor) and Spawners.addBird()
HatchSpawn ==
    \E c \in {[sp |-> "egg", pool |-> "eggs", ctr |-> "nextEggId", grid |-> FALSE],
              [sp |-> "duck_mallard", pool |-> "ducks", ctr |-> "nextDuckId", grid |-> TRUE]} :
        /\ Budget
        /\ c.sp = "duck_mallard" => canSpawn(pools, ent, c.sp)
        /\ SpawnThenQueue(c.sp, c.pool, c.ctr, c.grid, 0)
        /\ Reserved(nextEnt', pools', ent', removeQueue')
        /\ UNCHANGED <<timers, hatching, ducksFrom>>
        /\ HatchIdle

\* hatch() of an egg of the pool: its click listener, or Egg.update once
\* hatchTime has run out
HatchCall ==
    \E e \in Ents :
        /\ Includes(pools["eggs"], e)
        /\ LET H == Hatch([hatching |-> hatching, timers |-> timers], e)
           IN  hatching' = H.hatching /\ timers' = H.timers
        /\ UNCHANGED <<regVars, ids, entId, ducksFrom>>
        /\ HatchIdle

\* the callback of hatch timer t: canSpawn(MALLARD), then the duck; the egg is
\* queued for removal either way
HatchFire(t) ==
    /\ t \in timers
    /\ timers' = timers \ {t}
    /\ IF canSpawn(pools, ent, "duck_mallard")
         THEN /\ Budget
              /\ SpawnThenQueue("duck_mallard", "ducks", "nextDuckId", TRUE, t.e)
              /\ ducksFrom' = [ducksFrom EXCEPT ![t.e] = @ + 1]
         ELSE /\ SetRegistry(QueueRemove(Registry, t.e))
              /\ UNCHANGED <<ent, nextEnt, ids, entId, ducksFrom>>
    /\ UNCHANGED hatching
    /\ HatchIdle

\* a pending timer fires
HatchFireAny == \E t \in timers : HatchFire(t)

\* the flush system of a tick
HatchFlush ==
    /\ removeQueue # <<>>
    /\ \E R \in {FlushRemovals(Registry, ent)} : SetRegistry(R)
    /\ UNCHANGED <<ent, nextEnt, ids, entId, timers, hatching, ducksFrom>>
    /\ HatchIdle

HatchInit ==
    /\ RegInit /\ EngineInit0 /\ AuxInit
    /\ isPaused = FALSE /\ entLimit = MaxTimerEnt /\ pc = "idle"

HatchNext == HatchSpawn \/ HatchCall \/ HatchFireAny \/ HatchFlush

SpecHatch == HatchInit /\ [][HatchNext]_vars

\* the browser runs a timer that is due, and the engine keeps ticking
SpecHatchLive ==
    /\ SpecHatch
    /\ WF_vars(HatchFireAny)
    /\ WF_vars(HatchFlush)

(***************************************************************************)
(* Hatching claim (checked under SpecHatchLive)                            *)
(***************************************************************************)
\* C38: an egg produces at most one duck however often hatch() is called, and
\* an egg whose hatching has started is eventually out of the eggs pool,
\* whether its callback could construct the duck or not.
C38_HatchOnce ==
    /\ [](\A e \in Ents : ducksFrom[e] <= 1)
    /\ \A e \in Ents :
          (e \in hatching /\ Includes(pools["eggs"], e)) ~> ~Includes(pools["eggs"], e)

\* two eggs have hatched and left the eggs pool: one turned into a duck, the
\* other found the ducks at their cap
C38_Witness ==
    \E a \in hatching, b \in hatching :
        /\ ducksFrom[a] = 1 /\ ducksFrom[b] = 0
        /\ ent[a].sp = "egg" /\ ent[b].sp = "egg"
        /\ ~Includes(pools["eggs"], a) /\ ~Includes(pools["eggs"], b)
        /\ HatchTimersOf(timers, a) = {} /\ HatchTimersOf(timers, b) = {}

(***************************************************************************)
(* SpecPause: the whole tick of main.js with a duck and the algae, paused  *)
(* and unpaused.  Times are in seconds: simTime is world.time, algaeTimer  *)
(* is compared with ALGAE_SPAWN_INTERVAL; the hunger of a duck is counted  *)
(* in units of 1/5 point, so that dt * 0.8 is an integer.                  *)
(***************************************************************************)
\* the dt of every tick, in seconds (the engine passes at most 0.1; with
\* this value timers, lifetimes and the day run out within the bounds)
TickDt == 20

\* bound on world.time and on the entities constructed under SpecPause
MaxTickTime == 100
MaxTickEnt == 3

\* config.DAY_NIGHT_DURATION ?? 60
dayNightDuration == 60

\* SPECIES.BIRDS.MALLARD.maxAge
DuckMaxAge == 240

\* the hunger a new duck may draw (Math.random() * 50 + 25), in 1/5 points
DuckHungers == {250}

\* the variables no step of SpecPause writes
PauseIdle ==
    UNCHANGED <<engVars, dupReq, loopVars, busVars, gridVars, lastAdd, ids, entId,
                seagrassTimers, timers, onIsland, hatching, canBreed,
                foreignWrites, thinkVars, reproCooldown, lucky, sinceBred,
                lastGap, huntVars, layCount, ducksFrom, genomeVars, entLimit>>

\* what the steps of a tick write
PauseWorld == <<waterPollution, biodiversity, lifetime, algaeVars, hunger,
                birdState, tickVars>>

\* window.gameActions.addBird / addAlgae between two ticks
PauseSpawn ==
    \E c \in {[sp |-> "duck_mallard", pool |-> "ducks", grid |-> TRUE],
              [sp |-> "algae_toxic", pool |-> "algae", grid |-> FALSE]},
       h \in DuckHungers :
        /\ pc = "idle" /\ Budget
        /\ canSpawn(pools, ent, c.sp)
        /\ LET E1 == [ent EXCEPT ![nextEnt] = NewEntity(c.sp, SpawnPos)]
           IN  /\ ent' = E1
               /\ SetRegistry(Add(Registry, E1, nextEnt, c.pool, c.grid))
        /\ nextEnt' = nextEnt + 1
        /\ hunger' = [hunger EXCEPT ![nextEnt] = IF c.pool = "ducks" THEN h ELSE @]
        /\ lifetime' = [lifetime EXCEPT ![nextEnt] =
                            IF c.pool = "algae" THEN maxAge(c.sp) ELSE @]
        /\ UNCHANGED <<waterPollution, biodiversity, algaeVars, birdState, tickVars,
                       lastFlush, isPaused, pc>>
        /\ PauseIdle

\* GameUI.togglePause, a click handler between two ticks
PauseToggle ==
    /\ pc = "idle"
    /\ isPaused' = ~isPaused
    /\ UNCHANGED <<regVars, PauseWorld, lastFlush, pc>>
    /\ PauseIdle

\* ---- 1. entities.flushRemovals() ----
PauseFlush ==
    /\ pc = "idle"
    /\ pc' = "ai"
    /\ isPaused \/ simTime + TickDt <= MaxTickTime
    /\ \E R \in {FlushRemovals(Registry, ent)} :
          SetRegistry(R) /\ lastFlush' = FlushObservation(R)
    /\ UNCHANGED <<ent, nextEnt, PauseWorld, isPaused>>
    /\ PauseIdle

\* the states a duck's _think may choose
ThinkStates == {"idle", "exploring"}

\* ---- 2. AISystem.update: returns when paused; otherwise _think of every
\* duck assigns its state ----
PauseAI ==
    /\ pc = "ai"
    /\ pc' = "movement"
    /\ IF isPaused THEN UNCHANGED birdState
       ELSE \E st \in ThinkStates :
               birdState' = [e \in Ents |-> IF Includes(pools["ducks"], e)
                                              THEN st ELSE birdState[e]]
    /\ UNCHANGED <<regVars, waterPollution, biodiversity, lifetime, algaeVars,
                   hunger, tickVars, lastFlush, isPaused>>
    /\ PauseIdle

\* ---- 3. MovementSystem.update and 4. ReproductionSystem.update: both
\* return when paused, and find no fish, sea creature, octopus, mammal or
\* shrimp in the pools otherwise ----
PauseMovement ==
    /\ pc = "movement"
    /\ pc' = "reproduction"
    /\ UNCHANGED <<regVars, PauseWorld, lastFlush, isPaused>>
    /\ PauseIdle

PauseReproduction ==
    /\ pc = "reproduction"
    /\ pc' = "pollution"
    /\ UNCHANGED <<regVars, PauseWorld, lastFlush, isPaused>>
    /\ PauseIdle

\* mutant: PollutionSystem.update without its first line
PollutionUpdate_NoPauseCheck(paused, P, wp, E, d) ==
    LET algaePools == P.R.pools["algae"] \o P.R.pools["seagrass"] \o P.R.pools["kelp"]
        P1 == AgeAlgae(P, algaePools, d)
    IN  [R |-> P1.R, life |-> P1.life,
         wp |-> ClampPollution(wp + Delta(E, algaePools, d))]

\* PollutionSystem.update(dt): if (this.world.isPaused) return; then the
\* algae loop and the clamped sum.  P = [R, life], wp = waterPollution
PollutionUpdate(paused, P, wp, E, d) ==
    IF paused THEN [R |-> P.R, life |-> P.life, wp |-> wp]
    ELSE LET algaePools == P.R.pools["algae"] \o P.R.pools["seagrass"] \o P.R.pools["kelp"]
             P1 == AgeAlgae(P, algaePools, d)
         IN  [R |-> P1.R, life |-> P1.life,
              wp |-> ClampPollution(wp + Delta(E, algaePools, d))]

\* ---- 5. PollutionSystem.update ----
PausePollution ==
    /\ pc = "pollution"
    /\ pc' = "entityUpdate"
    /\ LET out == PollutionUpdate(isPaused, [R |-> Registry, life |-> lifetime],
                                  waterPollution, ent, TickDt)
       IN  /\ SetRegistry(out.R)
           /\ lifetime' = out.life
           /\ waterPollution' = out.wp
    /\ UNCHANGED <<ent, nextEnt, biodiversity, algaeVars, hunger, birdState,
                   tickVars, lastFlush, isPaused>>
    /\ PauseIdle

\* BirdEntity.update(dt) of the ducks of arr, last to first: age += dt; at
\* maxAge the duck is dead and returns; otherwise hunger falls by dt * 0.8
\* and the duck moves to PositionList[to] (no grid is told).
\* S = [E, age, H]
RECURSIVE UpdateDucks(_, _, _, _)
UpdateDucks(S, arr, d, to) ==
    IF arr = <<>> THEN S
    ELSE LET e  == arr[Len(arr)]
             a  == S.age[e] + d
             S1 == [S EXCEPT !.age[e] = a]
             S2 == IF a >= DuckMaxAge
                     THEN [S1 EXCEPT !.E[e].dead = TRUE]
                     ELSE [S1 EXCEPT !.H[e] = Max(0, @ - 4 * d),
                                     !.E[e].x = PositionList[to][1],
                                     !.E[e].y = PositionList[to][2]]
         IN  UpdateDucks(S2, SubSeq(arr, 1, Len(arr) - 1), d, to)

\* ---- 6. the per-entity update: returns when paused; otherwise update()
\* of every entity (AlgaeEntity.update does nothing) and queueRemove of the
\* dead ----
PauseEntityUpdate ==
    /\ pc = "entityUpdate"
    /\ pc' = "algaeSpawn"
    /\ IF isPaused THEN UNCHANGED <<regVars, age, hunger>>
       ELSE \E to \in 1..Len(PositionList) :
               LET S == UpdateDucks([E |-> ent, age |-> age, H |-> hunger],
                                    pools["ducks"], TickDt, to)
                   G == QueueDead([R |-> Registry, E |-> S.E],
                                  Flatten(pools, 1, FALSE))
               IN  /\ SetGame(G)
                   /\ age' = S.age
                   /\ hunger' = S.H
                   /\ UNCHANGED nextEnt
    /\ UNCHANGED <<waterPollution, biodiversity, lifetime, algaeVars, birdState,
                   dayNightCycle, isNight, domMap, ufoCheckCooldown, lastFlush,
                   isPaused>>
    /\ PauseIdle

\* ---- 7. natural algae spawning: returns when paused; otherwise the timer
\* grows by dt and, having reached the interval, is set to 0 before
\* addAlgae() ----
PauseAlgaeSpawn ==
    /\ pc = "algaeSpawn"
    /\ pc' = "dayNight"
    /\ IF isPaused THEN UNCHANGED <<regVars, algaeTimer, algaeFired, lifetime>>
       ELSE IF algaeTimer + TickDt >= ALGAE_SPAWN_INTERVAL
              THEN /\ algaeTimer' = 0
                   /\ algaeFired' = algaeFired + 1
                   /\ IF Budget     \* an entity object is left to construct
                        THEN /\ Spawned(addAlgae(Game, nextEnt))
                             /\ lifetime' =
                                  IF canSpawn(pools, ent, "algae_healthy")
                                    THEN [lifetime EXCEPT ![nextEnt] = maxAge("algae_healthy")]
                                    ELSE lifetime
                        ELSE UNCHANGED <<regVars, lifetime>>
              ELSE /\ algaeTimer' = algaeTimer + TickDt
                   /\ UNCHANGED <<regVars, algaeFired, lifetime>>
    /\ UNCHANGED <<waterPollution, biodiversity, simTime, hunger, birdState,
                   tickVars, lastFlush, isPaused>>
    /\ PauseIdle

\* World.tick(dt): false when paused; otherwise time and dayNightCycle grow
\* by dt and the phase flips when the cycle has reached its duration.
\* W = [time, cycle, night]
WorldTick(paused, W, d) ==
    IF paused THEN W
    ELSE IF W.cycle + d >= dayNightDuration
           THEN [time |-> W.time + d, cycle |-> 0, night |-> ~W.night]
           ELSE [time |-> W.time + d, cycle |-> W.cycle + d, night |-> W.night]

\* ---- 8. day/night: if (world.isPaused) return; world.tick(dt) ----
PauseDayNight ==
    /\ pc = "dayNight"
    /\ pc' = "render"
    /\ IF isPaused THEN UNCHANGED <<simTime, dayNightCycle, isNight>>
       ELSE LET W == WorldTick(isPaused, [time |-> simTime, cycle |-> dayNightCycle,
                                          night |-> isNight], TickDt)
            IN  /\ simTime' = W.time
                /\ dayNightCycle' = W.cycle
                /\ isNight' = W.night
    /\ UNCHANGED <<regVars, waterPollution, biodiversity, lifetime, algaeTimer,
                   algaeFired, hunger, birdState, age, domMap, ufoCheckCooldown,
                   lastFlush, isPaused>>
    /\ PauseIdle

\* ---- 9. RenderSystem.update: runs paused or not; afterwards domMap holds
\* an element for exactly the entities of the pools ----
PauseRender ==
    /\ pc = "render"
    /\ pc' = "ui"
    /\ domMap' = {e \in Ents : \E k \in 1..Len(AllArrays) : Includes(pools[AllArrays[k]], e)}
    /\ UNCHANGED <<regVars, waterPollution, biodiversity, lifetime, algaeVars,
                   hunger, birdState, age, dayNightCycle, isNight,
                   ufoCheckCooldown, lastFlush, isPaused>>
    /\ PauseIdle

\* ---- 10. GameUI.update: runs paused or not; the throttled biodiversity
\* update is due or not ----
PauseUI ==
    /\ pc = "ui"
    /\ pc' = "ufo"
    /\ \/ UNCHANGED biodiversity
       \/ biodiversity' = updateBiodiversity
    /\ UNCHANGED <<regVars, waterPollution, lifetime, algaeVars, hunger, birdState,
                   tickVars, lastFlush, isPaused>>
    /\ PauseIdle

\* ---- 11. the UFO system: runs paused or not.  UFOSequence.update(dt)
\* moves the UFO only; the cooldown falls by dt and, having run out, is set
\* to 5, and to 120 when a visit is triggered (no sequence active and
\* biodiversity > 70) ----
PauseUFO ==
    /\ pc = "ufo"
    /\ pc' = "idle"
    /\ IF ufoCheckCooldown - TickDt > 0
         THEN ufoCheckCooldown' = ufoCheckCooldown - TickDt
         ELSE \E active \in BOOLEAN :
                 ufoCheckCooldown' =
                    IF ~active /\ biodiversity > 70 * BioScale THEN 120 ELSE 5
    /\ UNCHANGED <<regVars, waterPollution, biodiversity, lifetime, algaeVars,
                   hunger, birdState, age, dayNightCycle, isNight, domMap,
                   lastFlush, isPaused>>
    /\ PauseIdle

PauseInit ==
    /\ RegInit /\ EngineInit0 /\ AuxInit
    /\ isPaused = FALSE /\ entLimit = MaxTickEnt /\ pc = "idle"

PauseNext ==
    \/ PauseSpawn \/ PauseToggle \/ PauseFlush \/ PauseAI \/ PauseMovement
    \/ PauseReproduction \/ PausePollution \/ PauseEntityUpdate
    \/ PauseAlgaeSpawn \/ PauseDayNight \/ PauseRender \/ PauseUI \/ PauseUFO

SpecPause == PauseInit /\ [][PauseNext]_vars

\* the positions of the entities
PositionsOf(E) == [e \in Ents |-> <<E[e].x, E[e].y>>]

(***************************************************************************)
\* C39: a step of a tick executed while world.isPaused is true changes no
\* entity's position, age, lifetime or stats, leaves world.time, the
\* day/night clock, the algae spawn timer and waterPollution as they are,
\* and changes anything at all only if it is the removal flush, the render,
\* the UI or the UFO step.
C39_PausedTick ==
    [][(isPaused /\ pc' # pc) =>
          /\ PositionsOf(ent') = PositionsOf(ent)
          /\ UNCHANGED <<age, lifetime, hunger, birdState, simTime, dayNightCycle,
                         isNight, algaeTimer, waterPollution>>
          /\ (pc \notin {"idle", "render", "ui", "ufo"})
                => UNCHANGED <<engVars, regVars, obsVars, worldVars, auxVars, entLimit>>]_vars

\* a paused tick has reached its last step: its flush took an alga whose
\* lifetime had run out from the pools, its render step left elements for
\* the entities of the pools only, and its UI step wrote the biodiversity;
\* a duck that has aged, moved and grown hungry is in the pools
C39_Witness ==
    /\ isPaused /\ pc = "ufo"
    /\ lastFlush # NoFlush /\ lastFlush.removed > 0
    /\ \E e \in Ents : /\ ent[e].sp = "algae_toxic" /\ lifetime[e] <= 0
                        /\ ~Includes(pools["algae"], e) /\ e \notin domMap
    /\ \E e \in Ents : /\ Includes(pools["ducks"], e) /\ e \in domMap
                        /\ age[e] > 0 /\ hunger[e] < 250
                        /\ <<ent[e].x, ent[e].y>> # SpawnPos
    /\ waterPollution > 0 /\ simTime > 0 /\ dayNightCycle > 0
    /\ biodiversity > 0

(***************************************************************************)
(* SpecGenomix: genomix.mutate (genomix/genomixLib.sol, pragma ^0.8.24).    *)
(* A uint256 word is modelled with WordBits bits; as in the library the    *)
(* reserved region is the top quarter of the word.  Arithmetic outside an  *)
(* unchecked block reverts with Panic(0x11) when its result does not fit   *)
(* the word.                                                               *)
(***************************************************************************)
\* the bits of a word (256 in the library)
WordBits == 8

\* type(uint256).max
UintMax == 2^WordBits - 1

\* the width of the reserved region (bits 192-255 of 256)
ReservedBits == WordBits \div 4

\* RESERVED_MASK = 0xFFFFFFFFFFFFFFFF << 192
RESERVED_MASK == (2^ReservedBits - 1) * 2^(WordBits - ReservedBits)

\* the number of intensity levels: the 64 of the require and of the
\* division, for a word of WordBits bits
IntensityLevels == 4

\* the uint8 arguments the calls are made with: every level, 0, and the
\* values next above the range
Intensities == 0..(IntensityLevels + 2)

Words == 0..UintMax

\* a & b, a ^ b and ~a on words of n bits
RECURSIVE BitAnd(_, _, _)
BitAnd(a, b, n) ==
    IF n = 0 THEN 0
    ELSE (a % 2) * (b % 2) + 2 * BitAnd(a \div 2, b \div 2, n - 1)

RECURSIVE BitXor(_, _, _)
BitXor(a, b, n) ==
    IF n = 0 THEN 0
    ELSE (((a % 2) + (b % 2)) % 2) + 2 * BitXor(a \div 2, b \div 2, n - 1)

BitNot(a) == UintMax - a

Returned(v) == [kind |-> "returned", value |-> v]
Reverted(why) == [kind |-> "reverted", value |-> why]

\* the checked multiplication of Solidity 0.8: Panic(0x11) on overflow
CheckedMul(a, b) ==
    IF a * b > UintMax THEN Reverted("Panic(0x11)") ELSE Returned(a * b)

\* the mask of mutate when the multiplication has not overflowed:
\* uint256(randomSeed) & intensityFactor & ~RESERVED_MASK
MaskOf(randomSeed, intensityFactor) ==
    BitAnd(BitAnd(randomSeed, intensityFactor, WordBits),
           BitNot(RESERVED_MASK), WordBits)

\* genomix.mutate(parentGenome, mutationIntensity, randomSeed)
mutate(parentGenome, mutationIntensity, randomSeed) ==
    IF ~(mutationIntensity > 0 /\ mutationIntensity <= IntensityLevels)
      THEN Reverted("genomix: intensity out of range")
      ELSE LET product == CheckedMul(mutationIntensity, UintMax)
           IN  IF product.kind = "reverted" THEN product
               ELSE LET intensityFactor == product.value \div IntensityLevels
                    IN  Returned(BitXor(parentGenome,
                                        MaskOf(randomSeed, intensityFactor),
                                        WordBits))

\* a caller calls mutate with the arguments drawn at the start
CallMutate ==
    /\ pc = "call"
    /\ pc' = "done"
    /\ mutResult' = mutate(mutArgs.parentGenome, mutArgs.mutationIntensity,
                           mutArgs.randomSeed)
    /\ UNCHANGED <<engVars, regVars, obsVars, worldVars, loopVars, busVars,
                   gridVars, lastAdd, ids, entId, seagrassTimers, timers,
                   onIsland, hatching, canBreed, foreignWrites, waterPollution,
                   biodiversity, lifetime, algaeVars, thinkVars, reproVars,
                   huntVars, layVars, ducksFrom, tickVars, mutArgs, entLimit>>

GenomixInit ==
    /\ RegInit /\ EngineInit0
    /\ LoopInit0 /\ BusInit0 /\ GridInit0 /\ CallInit0 /\ isMobile = FALSE
    /\ mutArgs \in [parentGenome : Words, mutationIntensity : Intensities,
                    randomSeed : Words]
    /\ isPaused = FALSE /\ entLimit = 0 /\ pc = "call"

GenomixNext == CallMutate

SpecGenomix == GenomixInit /\ [][GenomixNext]_vars

\* the reserved bits of a word
ReservedOf(g) == BitAnd(g, RESERVED_MASK, WordBits)

(***************************************************************************)
\* C40: mutate returns for every mutationIntensity of 1..64 and reverts
\* for the others only; the genome it returns is parentGenome XOR a mask
\* taken from the seed, with the reserved bits of the parent.  Violated:
\* for every intensity above 1 the checked product of the intensity and
\* type(uint256).max overflows, and the call reverts.
C40_Original ==
    pc = "done" =>
        /\ (mutResult.kind = "returned")
              <=> (mutArgs.mutationIntensity \in 1..IntensityLevels)
        /\ mutResult.kind = "returned" =>
              /\ \E m \in Words :
                    /\ BitAnd(m, mutArgs.randomSeed, WordBits) = m
                    /\ mutResult.value = BitXor(mutArgs.parentGenome, m, WordBits)
              /\ ReservedOf(mutResult.value) = ReservedOf(mutArgs.parentGenome)

=============================================================================
